---- MODULE Spec2Model ----
(***************************************************************************)
(* Model of gpf.tools.queries: the Where SQL expression builder, combine() *)
(* and add_where(), as a state machine over a heap of Where objects and    *)
(* the list objects that hold their (part, is_field) tuples; of the Editor *)
(* and InsertCursor of gpf.cursors; and of the Workspace of gpf.paths.     *)
(***************************************************************************)
EXTENDS Integers, Sequences, FiniteSets, TLC

VARIABLES
    insts,      \* Where objects by identity: [_parts |-> list object, _isdirty |-> bool]
    lists,      \* list objects by identity: the sequence of (part, is_field) tuples
    last,       \* the last call made: its operation and the exception it raised
    delims,     \* the AddFieldDelimiters calls the last call made, in order
    editor,     \* the caller's Editor: the object, the with_undo it was constructed
                \* with, whether the caller is in its with block, how its session opened
    cursor,     \* the caller's InsertCursor
    workspace   \* the caller's Workspace, and whether find_path was called on it

vars == <<insts, lists, last, delims, editor, cursor, workspace>>

----------------------------------------------------------------------------
(* Bounds of the model *)

\* most Where objects alive at once
MaxObjs == 3
\* most tuples in one _parts list
MaxParts == 5
\* most calls made on the arcpy edit session of one Editor
MaxCalls == 8
\* most feature datasets mapped to one feature class name
MaxMapped == 2

----------------------------------------------------------------------------
(* Text *)

CHAR_SPACE == " "
CHAR_EMPTY == ""
TEXT_AND == "and"
TEXT_OR == "or"
TEXT_COMMASPACE == ", "
WHERE_KWARG == "where_clause"

Char(s, i) == SubSeq(s, i, i)

RECURSIVE Contains(_, _)
Contains(s, c) ==
    IF Len(s) = 0 THEN FALSE
    ELSE IF Char(s, 1) = c THEN TRUE
    ELSE Contains(SubSeq(s, 2, Len(s)), c)

\* str.strip(chars): drops leading and trailing characters that are in chars
RECURSIVE LStrip(_, _)
LStrip(s, chars) ==
    IF Len(s) > 0 /\ Contains(chars, Char(s, 1))
    THEN LStrip(SubSeq(s, 2, Len(s)), chars)
    ELSE s

RECURSIVE RStrip(_, _)
RStrip(s, chars) ==
    IF Len(s) > 0 /\ Contains(chars, Char(s, Len(s)))
    THEN RStrip(SubSeq(s, 1, Len(s) - 1), chars)
    ELSE s

Strip(s, chars) == RStrip(LStrip(s, chars), chars)

\* str.join over a sequence of strings
RECURSIVE Join(_, _)
Join(sep, strs) ==
    IF Len(strs) = 0 THEN ""
    ELSE IF Len(strs) = 1 THEN strs[1]
    ELSE strs[1] \o sep \o Join(sep, Tail(strs))

\* str.upper on the two conjunction words of const.py
Upper(s) ==
    CASE s = "and" -> "AND"
      [] s = "or" -> "OR"
      [] OTHER -> s

Digit(d) == Char("0123456789", d + 1)

\* str(int)
RECURSIVE IntStr(_)
IntStr(n) ==
    IF n < 0 THEN "-" \o IntStr(0 - n)
    ELSE IF n < 10 THEN Digit(n)
    ELSE IntStr(n \div 10) \o Digit(n % 10)

\* the characters of the model's text values in code point order
CodePoints == "\"$%'0123456789ABCDEFGHIJKLMNOPQRSTUVWXYZ[\\]_abcdefghijklmnopqrstuvwxyz"

\* position of character c in CodePoints, searched from position i
RECURSIVE OrdFrom(_, _)
OrdFrom(c, i) ==
    IF i > Len(CodePoints) \/ Char(CodePoints, i) = c THEN i ELSE OrdFrom(c, i + 1)

\* ord(c), up to an order-preserving renumbering
Ord(c) == OrdFrom(c, 1)

\* str < str: lexicographic by code point
RECURSIVE StrLess(_, _)
StrLess(a, b) ==
    IF Len(b) = 0 THEN FALSE
    ELSE IF Len(a) = 0 THEN TRUE
    ELSE IF Char(a, 1) = Char(b, 1)
         THEN StrLess(SubSeq(a, 2, Len(a)), SubSeq(b, 2, Len(b)))
         ELSE Ord(Char(a, 1)) < Ord(Char(b, 1))

\* every ' replaced by \' and every \ by \\ (repr's escaping inside single quotes)
RECURSIVE EscapeQuoted(_)
EscapeQuoted(s) ==
    IF Len(s) = 0 THEN ""
    ELSE LET c == Char(s, 1)
             e == IF c = "'" THEN "\\'" ELSE IF c = "\\" THEN "\\\\" ELSE c
         IN  e \o EscapeQuoted(SubSeq(s, 2, Len(s)))

RECURSIVE EscapeBackslash(_)
EscapeBackslash(s) ==
    IF Len(s) = 0 THEN ""
    ELSE LET c == Char(s, 1)
         IN  (IF c = "\\" THEN "\\\\" ELSE c) \o EscapeBackslash(SubSeq(s, 2, Len(s)))

\* textutils.to_repr on a str: Python's repr(str)
to_repr(s) ==
    IF Contains(s, "'") /\ ~Contains(s, "\"")
    THEN "\"" \o EscapeBackslash(s) \o "\""
    ELSE "'" \o EscapeQuoted(s) \o "'"

----------------------------------------------------------------------------
(* Python values passed to the builder *)

PyInt(k)    == [t |-> "int",    n |-> k, s |-> "", items |-> <<>>]
PyBool(b)   == [t |-> "bool",   n |-> IF b THEN 1 ELSE 0, s |-> "", items |-> <<>>]
\* a float with one decimal digit, held in tenths: PyFloat(35) is 3.5
PyFloat(k)  == [t |-> "float",  n |-> k, s |-> "", items |-> <<>>]
PyStr(x)    == [t |-> "str",    n |-> 0, s |-> x,  items |-> <<>>]
PyNone      == [t |-> "None",   n |-> 0, s |-> "", items |-> <<>>]
PyObject    == [t |-> "object", n |-> 0, s |-> "", items |-> <<>>]
\* a list or tuple of values
PyList(xs)  == [t |-> "list",   n |-> 0, s |-> "", items |-> xs]
\* a reference to the Where object i
PyWhere(i)  == [t |-> "Where",  n |-> i, s |-> "", items |-> <<>>]

\* validate.is_text(value)
is_text(value) == value.t = "str"

\* validate.is_number(value, allow_bool)
is_number(value, allow_bool) ==
    IF value.t = "bool" THEN allow_bool ELSE value.t \in {"int", "float"}

\* bool(value) for the values of the model
Truthy(value) ==
    CASE value.t \in {"int", "float", "bool"} -> value.n # 0
      [] value.t = "str" -> value.s # ""
      [] value.t = "list" -> value.items # <<>>
      [] value.t = "None" -> FALSE
      [] OTHER -> TRUE

\* the numeric value in tenths, which ==, <, hash() of numbers go by
Tenths(value) == IF value.t = "float" THEN value.n ELSE 10 * value.n

\* value == other
PyEq(a, b) ==
    IF is_number(a, TRUE) /\ is_number(b, TRUE) THEN Tenths(a) = Tenths(b)
    ELSE a = b

\* value < other, for two numbers or two strings
PyLess(a, b) ==
    IF is_number(a, TRUE) THEN Tenths(a) < Tenths(b) ELSE StrLess(a.s, b.s)

\* str(value.real)
RealStr(value) ==
    IF value.t = "float"
    THEN LET a == IF value.n < 0 THEN 0 - value.n ELSE value.n
         IN  (IF value.n < 0 THEN "-" ELSE "") \o IntStr(a \div 10) \o "." \o Digit(a % 10)
    ELSE IntStr(value.n)

----------------------------------------------------------------------------
(* The heap, and the outcome of a call on it *)

Heap == [insts |-> insts, lists |-> lists]

\* the call returned normally, leaving heap h
Ok(h) == [err |-> "", h |-> h, out |-> "", calls |-> <<>>]
\* the call raised exception class e, leaving heap h
Raise(e, h) == [err |-> e, h |-> h, out |-> "", calls |-> <<>>]

\* the objects the caller cannot reach (those made after h0) are gone
Unwind(h0, h) ==
    [insts |-> SubSeq(h.insts, 1, Len(h0.insts)),
     lists |-> SubSeq(h.lists, 1, Len(h0.lists))]

\* self._parts and self._isdirty
Parts(h, self) == h.lists[h.insts[self]._parts]
IsDirty(h, self) == h.insts[self]._isdirty

SetDirty(h, self, b) == [h EXCEPT !.insts[self]._isdirty = b]

----------------------------------------------------------------------------
(* class Where *)

SQL_OR      == Upper(TEXT_OR)
SQL_AND     == Upper(TEXT_AND)
SQL_NOT     == "NOT"
SQL_IS      == "IS"
SQL_IN      == "IN"
SQL_NULL    == "NULL"
SQL_LIKE    == "LIKE"
SQL_BETWEEN == "BETWEEN"
SQL_ESCAPE  == "ESCAPE"
SQL_EQ      == "="
SQL_LE      == "<="
SQL_GE      == ">="
SQL_LT      == "<"
SQL_GT      == ">"
SQL_NE      == "<>"

\* mutant: the state check is missing
_add_any_unchecked(h, self, value, is_field, is_conjunction) ==
    Ok([h EXCEPT !.lists[h.insts[self]._parts] =
            Append(@, [part |-> value, is_field |-> is_field])])

\* mutant: the state check raises ValueError like every other check
_add_any_valueerror(h, self, value, is_field, is_conjunction) ==
    IF (is_field \/ is_conjunction) = IsDirty(h, self)
    THEN Raise("ValueError", h)
    ELSE Ok([h EXCEPT !.lists[h.insts[self]._parts] =
                Append(@, [part |-> value, is_field |-> is_field])])

_add_any(h, self, value, is_field, is_conjunction) ==
    IF (is_field \/ is_conjunction) = IsDirty(h, self)
    THEN Raise("SyntaxError", h)
    ELSE Ok([h EXCEPT !.lists[h.insts[self]._parts] =
                Append(@, [part |-> value, is_field |-> is_field])])

\* the loop of _add_expression
RECURSIVE AddEach(_, _, _)
AddEach(h, self, values) ==
    IF values = <<>> THEN Ok(h)
    ELSE LET r == _add_any(h, self, Head(values), FALSE, FALSE)
         IN  IF r.err # "" THEN r ELSE AddEach(r.h, self, Tail(values))

_add_expression(h, self, values) ==
    LET r == AddEach(h, self, values)
    IN  IF r.err # "" THEN r ELSE Ok(SetDirty(r.h, self, FALSE))

_add_field(h, self, field) ==
    LET r == _add_any(h, self, field, TRUE, FALSE)
    IN  IF r.err # "" THEN r ELSE Ok(SetDirty(r.h, self, TRUE))

\* list.extend
Extend(h, self, clause) ==
    [h EXCEPT !.lists[h.insts[self]._parts] = @ \o Parts(h, clause)]

\* mutant: self._parts = clause._parts, the list is shared instead of copied
_add_clause_shared(h, self, clause) ==
    Ok([h EXCEPT !.insts[self] = [_parts |-> h.insts[clause]._parts,
                                  _isdirty |-> h.insts[clause]._isdirty]])

\* mutant: the _isdirty state of the input query is not copied
_add_clause_ready(h, self, clause) == Ok(Extend(h, self, clause))

_add_clause(h, self, clause) ==
    LET h1 == Extend(h, self, clause)
    IN  Ok(SetDirty(h1, self, IsDirty(h1, clause)))

_add_new(h, self, field_or_clause) ==
    IF field_or_clause.t = "Where" THEN _add_clause(h, self, field_or_clause.n)
    ELSE IF field_or_clause.t = "str" THEN _add_field(h, self, field_or_clause.s)
    ELSE Raise("ValueError", h)

\* self._parts = []; self._isdirty = False, on a new object
Allocate(h) ==
    [insts |-> Append(h.insts, [_parts |-> Len(h.lists) + 1, _isdirty |-> FALSE]),
     lists |-> Append(h.lists, <<>>)]

\* mutant: Where(clause) takes the list object of clause instead of copying its tuples
__init__aliasing(h, field_or_clause) ==
    IF field_or_clause.t = "Where"
    THEN Ok([h EXCEPT !.insts = Append(@, h.insts[field_or_clause.n])])
    ELSE _add_new(Allocate(h), Len(h.insts) + 1, field_or_clause)

__init__(h, field_or_clause) ==
    LET h1 == Allocate(h)
    IN  _add_new(h1, Len(h1.insts), field_or_clause)

\* mutant: the conjunction is appended without the state check
_combine_unchecked(h, self, operator, field_or_clause) ==
    _add_new([h EXCEPT !.lists[h.insts[self]._parts] =
                 Append(@, [part |-> operator, is_field |-> FALSE])],
             self, field_or_clause)

_combine(h, self, operator, field_or_clause) ==
    LET r == _add_any(h, self, operator, FALSE, TRUE)
    IN  IF r.err # "" THEN r ELSE _add_new(r.h, self, field_or_clause)

\* the text of every tuple of a list
RECURSIVE PartTexts(_)
PartTexts(parts) ==
    IF parts = <<>> THEN <<>> ELSE <<Head(parts).part>> \o PartTexts(Tail(parts))

\* mutant: the parts are joined without a separator
_output_unspaced(h, self, check) ==
    IF check /\ IsDirty(h, self) THEN Raise("ValueError", h)
    ELSE [Ok(h) EXCEPT !.out = Join(CHAR_EMPTY, PartTexts(Parts(h, self)))]

_output(h, self, check) ==
    IF check /\ IsDirty(h, self) THEN Raise("ValueError", h)
    ELSE [Ok(h) EXCEPT !.out = Join(CHAR_SPACE, PartTexts(Parts(h, self)))]

__repr__(h, self) == _output(h, self, FALSE)

\* mutant: str() renders without the check
__str__unchecked(h, self) == _output(h, self, FALSE)

__str__(h, self) == _output(h, self, TRUE)

\* any(v.__class__ is object for v in args)
RECURSIVE AnyObject(_)
AnyObject(args) ==
    IF args = <<>> THEN FALSE ELSE Head(args).t = "object" \/ AnyObject(Tail(args))

\* isinstance(v, sample_type), sample_type being (int, float, bool) or one type
IsInstance(v, sample_type) ==
    IF sample_type = "number" THEN v.t \in {"int", "float", "bool"} ELSE v.t = sample_type

RECURSIVE AllInstance(_, _)
AllInstance(args, sample_type) ==
    IF args = <<>> THEN TRUE
    ELSE IsInstance(Head(args), sample_type) /\ AllInstance(Tail(args), sample_type)

\* mutant: only the object() placeholder is refused
_check_types_any(args) ==
    IF AnyObject(args) THEN [err |-> "ValueError", ok |-> FALSE]
    ELSE [err |-> "", ok |-> TRUE]

\* returns [err, ok]: the exception raised, or the boolean returned
_check_types(args) ==
    IF AnyObject(args) THEN [err |-> "ValueError", ok |-> FALSE]
    ELSE LET sample_val == args[1]
             sample_type == IF is_number(sample_val, TRUE) THEN "number" ELSE sample_val.t
         IN  [err |-> "", ok |-> AllInstance(args, sample_type)]

\* mutant: str(value) instead of str(value.real), a bool gives its name
_format_value_str(value) ==
    IF value.t = "bool" THEN [err |-> "", out |-> IF value.n = 1 THEN "True" ELSE "False"]
    ELSE IF is_number(value, TRUE) THEN [err |-> "", out |-> RealStr(value)]
    ELSE IF is_text(value) THEN [err |-> "", out |-> to_repr(value.s)]
    ELSE [err |-> "ValueError", out |-> ""]

\* returns [err, out]: the exception raised, or the formatted string
_format_value(value) ==
    IF is_number(value, TRUE) THEN [err |-> "", out |-> RealStr(value)]
    ELSE IF is_text(value) THEN [err |-> "", out |-> to_repr(value.s)]
    ELSE [err |-> "ValueError", out |-> ""]

\* _format_value over a sequence, in order: [err, outs]
RECURSIVE FormatEach(_)
FormatEach(values) ==
    IF values = <<>> THEN [err |-> "", outs |-> <<>>]
    ELSE LET f == _format_value(Head(values))
             r == FormatEach(Tail(values))
         IN  IF f.err # "" THEN [err |-> f.err, outs |-> <<>>]
             ELSE IF r.err # "" THEN r
             ELSE [err |-> "", outs |-> <<f.out>> \o r.outs]

\* more_itertools.collapse(values, levels=1)
RECURSIVE Collapse1(_)
Collapse1(values) ==
    IF values = <<>> THEN <<>>
    ELSE (IF Head(values).t = "list" THEN Head(values).items ELSE <<Head(values)>>)
         \o Collapse1(Tail(values))

\* mutant: one value fewer than min_required is let through
_check_values_fewer(values, min_required) ==
    LET output == Collapse1(values)
    IN  IF output = <<>> THEN [err |-> "IndexError", output |-> <<>>]
        ELSE IF ~(Len(output) >= min_required - 1) THEN [err |-> "ValueError", output |-> <<>>]
        ELSE LET c == _check_types(output)
             IN  IF c.err # "" THEN [err |-> c.err, output |-> <<>>]
                 ELSE IF ~c.ok THEN [err |-> "ValueError", output |-> <<>>]
                 ELSE [err |-> "", output |-> output]

\* returns [err, output]
_check_values(values, min_required) ==
    LET output == Collapse1(values)
    IN  IF ~(Len(output) >= min_required) THEN [err |-> "ValueError", output |-> <<>>]
        ELSE LET c == _check_types(output)
             IN  IF c.err # "" THEN [err |-> c.err, output |-> <<>>]
                 ELSE IF ~c.ok THEN [err |-> "ValueError", output |-> <<>>]
                 ELSE [err |-> "", output |-> output]

RECURSIVE HasEqual(_, _)
HasEqual(values, v) ==
    IF values = <<>> THEN FALSE ELSE PyEq(Head(values), v) \/ HasEqual(Tail(values), v)

\* the elements of frozenset(values): of equal values the first one stays
RECURSIVE DedupInto(_, _)
DedupInto(kept, values) ==
    IF values = <<>> THEN kept
    ELSE DedupInto(IF HasEqual(kept, Head(values)) THEN kept ELSE Append(kept, Head(values)),
                   Tail(values))

RECURSIVE InsertSorted(_, _)
InsertSorted(sorted, v) ==
    IF sorted = <<>> THEN <<v>>
    ELSE IF PyLess(v, Head(sorted)) THEN <<v>> \o sorted
    ELSE <<Head(sorted)>> \o InsertSorted(Tail(sorted), v)

\* sorted() of pairwise unequal numbers or strings
RECURSIVE Sorted(_)
Sorted(values) ==
    IF values = <<>> THEN <<>>
    ELSE InsertSorted(Sorted(SubSeq(values, 1, Len(values) - 1)), values[Len(values)])

Hashable(v) == v.t \notin {"list", "Where"}
Orderable(v) == v.t \in {"int", "float", "bool", "str"}

AllHashable(values) == \A i \in 1..Len(values) : Hashable(values[i])
AllOrderable(values) == \A i \in 1..Len(values) : Orderable(values[i])

\* sorted(frozenset(flat_values)): [err, output]
SortedSet(flat_values) ==
    IF ~AllHashable(flat_values) THEN [err |-> "TypeError", output |-> <<>>]
    ELSE LET d == DedupInto(<<>>, flat_values)
         IN  IF Len(d) > 1 /\ ~AllOrderable(d) THEN [err |-> "TypeError", output |-> <<>>]
             ELSE IF Len(d) > 1 THEN [err |-> "", output |-> Sorted(d)]
             ELSE [err |-> "", output |-> d]

\* min(): the first of the smallest values
RECURSIVE Min(_)
Min(values) ==
    IF Len(values) = 1 THEN values[1]
    ELSE LET m == Min(SubSeq(values, 1, Len(values) - 1))
         IN  IF PyLess(values[Len(values)], m) THEN values[Len(values)] ELSE m

\* max(): the first of the largest values
RECURSIVE Max(_)
Max(values) ==
    IF Len(values) = 1 THEN values[1]
    ELSE LET m == Max(SubSeq(values, 1, Len(values) - 1))
         IN  IF PyLess(m, values[Len(values)]) THEN values[Len(values)] ELSE m

_in(h, self, operator, values) ==
    LET c == _check_values(values, 1)
        s == SortedSet(c.output)
        f == FormatEach(s.output)
    IN  IF c.err # "" THEN Raise(c.err, h)
        ELSE IF s.err # "" THEN Raise(s.err, h)
        ELSE IF f.err # "" THEN Raise(f.err, h)
        ELSE _add_expression(h, self,
                 <<operator, "(" \o Join(TEXT_COMMASPACE, f.outs) \o ")">>)

_between(h, self, operator, values) ==
    LET c == _check_values(values, 2)
    IN  IF c.err # "" THEN Raise(c.err, h)
        ELSE IF ~AllOrderable(c.output) THEN Raise("TypeError", h)
        ELSE LET f == FormatEach(<<Min(c.output), Max(c.output)>>)
             IN  IF f.err # "" THEN Raise(f.err, h)
                 ELSE _add_expression(h, self, <<operator, f.outs[1], SQL_AND, f.outs[2]>>)

_like(h, self, operator, value, escape_char) ==
    LET f == _format_value(value)
        e == _format_value(escape_char)
    IN  IF f.err # "" THEN Raise(f.err, h)
        ELSE IF ~Truthy(escape_char)
             THEN _add_expression(h, self, <<operator, Join(CHAR_SPACE, <<f.out>>)>>)
        ELSE IF e.err # "" THEN Raise(e.err, h)
        ELSE _add_expression(h, self,
                 <<operator, Join(CHAR_SPACE, <<f.out, SQL_ESCAPE, e.out>>)>>)

\* the shape of the six comparison methods: the value is formatted first
Compare(h, self, operator, value) ==
    LET f == _format_value(value)
    IN  IF f.err # "" THEN Raise(f.err, h)
        ELSE _add_expression(h, self, <<operator, f.out>>)

----------------------------------------------------------------------------
(* The fluent methods: the bodies that _return_new runs on the copy *)

And(h, self, field_or_clause) == _combine(h, self, SQL_AND, field_or_clause)

Or(h, self, field_or_clause) == _combine(h, self, SQL_OR, field_or_clause)

In(h, self, values) == _in(h, self, SQL_IN, values)

NotIn(h, self, values) == _in(h, self, SQL_NOT \o CHAR_SPACE \o SQL_IN, values)

Between(h, self, values) == _between(h, self, SQL_BETWEEN, values)

NotBetween(h, self, values) ==
    _between(h, self, SQL_NOT \o CHAR_SPACE \o SQL_BETWEEN, values)

Like(h, self, value, escape_char) == _like(h, self, SQL_LIKE, value, escape_char)

NotLike(h, self, value, escape_char) ==
    _like(h, self, SQL_NOT \o CHAR_SPACE \o SQL_LIKE, value, escape_char)

Equals(h, self, value) == Compare(h, self, SQL_EQ, value)

NotEquals(h, self, value) == Compare(h, self, SQL_NE, value)

GreaterThan(h, self, value) == Compare(h, self, SQL_GT, value)

LessThan(h, self, value) == Compare(h, self, SQL_LT, value)

GreaterThanOrEquals(h, self, value) == Compare(h, self, SQL_GE, value)

LessThanOrEquals(h, self, value) == Compare(h, self, SQL_LE, value)

\* mutant: the query stays dirty
IsNull_dirty(h, self) ==
    _add_any(h, self, SQL_IS \o CHAR_SPACE \o SQL_NULL, FALSE, FALSE)

IsNull(h, self) ==
    LET r == _add_any(h, self, SQL_IS \o CHAR_SPACE \o SQL_NULL, FALSE, FALSE)
    IN  IF r.err # "" THEN r ELSE Ok(SetDirty(r.h, self, FALSE))

IsNotNull(h, self) ==
    LET r == _add_any(h, self, Join(CHAR_SPACE, <<SQL_IS, SQL_NOT, SQL_NULL>>), FALSE, FALSE)
    IN  IF r.err # "" THEN r ELSE Ok(SetDirty(r.h, self, FALSE))

\* a call of a fluent method: its name and its arguments
Call(op, arg, values, escape_char) ==
    [op |-> op, arg |-> arg, values |-> values, escape_char |-> escape_char]

\* func(new_instance, *args, **kwargs)
Func(h, self, call) ==
    CASE call.op = "And" -> And(h, self, call.arg)
      [] call.op = "Or" -> Or(h, self, call.arg)
      [] call.op = "In" -> In(h, self, call.values)
      [] call.op = "NotIn" -> NotIn(h, self, call.values)
      [] call.op = "Between" -> Between(h, self, call.values)
      [] call.op = "NotBetween" -> NotBetween(h, self, call.values)
      [] call.op = "Like" -> Like(h, self, call.arg, call.escape_char)
      [] call.op = "NotLike" -> NotLike(h, self, call.arg, call.escape_char)
      [] call.op = "Equals" -> Equals(h, self, call.arg)
      [] call.op = "NotEquals" -> NotEquals(h, self, call.arg)
      [] call.op = "GreaterThan" -> GreaterThan(h, self, call.arg)
      [] call.op = "LessThan" -> LessThan(h, self, call.arg)
      [] call.op = "GreaterThanOrEquals" -> GreaterThanOrEquals(h, self, call.arg)
      [] call.op = "LessThanOrEquals" -> LessThanOrEquals(h, self, call.arg)
      [] call.op = "IsNull" -> IsNull(h, self)
      [] call.op = "IsNotNull" -> IsNotNull(h, self)

\* the object the decorated method runs on: a new copy of the instance
NewInstance(h, instance) == __init__(h, PyWhere(instance))

\* mutant: the method runs on the instance itself
_return_new_inplace(h, instance, call) == Func(h, instance, call)

\* the decorator: on success the object returned is the last one of the heap
_return_new(h, instance, call) ==
    LET c == NewInstance(h, instance)
    IN  IF c.err # "" THEN c ELSE Func(c.h, Len(c.h.insts), call)

----------------------------------------------------------------------------
(* The other public operations *)

\* arcpy.AddFieldDelimiters: what the data source at the path asks for
EndsWith(s, suffix) ==
    Len(s) >= Len(suffix) /\ SubSeq(s, Len(s) - Len(suffix) + 1, Len(s)) = suffix

AddFieldDelimiters(datasource, field) ==
    IF EndsWith(datasource, ".mdb") THEN "[" \o field \o "]"
    ELSE IF EndsWith(datasource, ".gdb") THEN "\"" \o field \o "\""
    ELSE field

\* mutant: the is_field test is missing, every part is delimited
RECURSIVE DelimitAllFrom(_, _, _, _, _)
DelimitAllFrom(h, self, datasource, i, calls) ==
    IF i > Len(Parts(h, self)) THEN [Ok(h) EXCEPT !.calls = calls]
    ELSE LET t == Parts(h, self)[i]
             name == Strip(t.part, "[]\"")
             h1 == [h EXCEPT !.lists[h.insts[self]._parts][i] =
                       [part |-> AddFieldDelimiters(datasource, name),
                        is_field |-> t.is_field]]
         IN  DelimitAllFrom(h1, self, datasource, i + 1,
                            Append(calls, <<datasource, name>>))

\* the loop of delimit_fields from index i on; calls collects the collaborator's calls
RECURSIVE DelimitFrom(_, _, _, _, _)
DelimitFrom(h, self, datasource, i, calls) ==
    IF i > Len(Parts(h, self)) THEN [Ok(h) EXCEPT !.calls = calls]
    ELSE LET t == Parts(h, self)[i]
         IN  IF ~t.is_field THEN DelimitFrom(h, self, datasource, i + 1, calls)
             ELSE LET name == Strip(t.part, "[]\"")
                      part == AddFieldDelimiters(datasource, name)
                      h1 == [h EXCEPT !.lists[h.insts[self]._parts][i] =
                                [part |-> part, is_field |-> t.is_field]]
                  IN  DelimitFrom(h1, self, datasource, i + 1,
                                  Append(calls, <<datasource, name>>))

delimit_fields(h, self, datasource) == DelimitFrom(h, self, datasource, 1, <<>>)

\* the fields property
RECURSIVE FieldParts(_)
FieldParts(parts) ==
    IF parts = <<>> THEN <<>>
    ELSE (IF Head(parts).is_field THEN <<Head(parts).part>> ELSE <<>>)
         \o FieldParts(Tail(parts))

\* mutant: a field name is returned once only, where it first occurs
fields_distinct(h, self) ==
    LET f == FieldParts(Parts(h, self))
        first == {k \in 1..Len(f) : \A m \in 1..(k - 1) : f[m] # f[k]}
    IN  [n \in 1..Cardinality(first) |->
            f[CHOOSE k \in first : Cardinality({m \in first : m <= k}) = n]]

fields(h, self) == FieldParts(Parts(h, self))

\* the is_ready property
is_ready(h, self) == ~IsDirty(h, self)

\* a dict with one more item
SetItem(d, k, v) == [x \in DOMAIN d \cup {k} |-> IF x = k THEN v ELSE d[x]]

get_kwargs(h, self, keyword, kw) == SetItem(kw, keyword, _output(h, self, FALSE).out)

\* mutant: the is_ready check is missing
combine_unchecked(h, where_clause) ==
    IF where_clause.t # "Where" THEN Raise("ValueError", h)
    ELSE LET w == __init__(h, where_clause)
             wrapper == Len(w.h.insts)
         IN  Ok([w.h EXCEPT !.lists[w.h.insts[wrapper]._parts] =
                    <<[part |-> "(", is_field |-> FALSE]>> \o @
                    \o <<[part |-> ")", is_field |-> FALSE]>>])

\* mutant: the closing parenthesis is not appended
combine_unclosed(h, where_clause) ==
    IF where_clause.t # "Where" THEN Raise("ValueError", h)
    ELSE IF ~is_ready(h, where_clause.n) THEN Raise("ValueError", h)
    ELSE LET w == __init__(h, where_clause)
             wrapper == Len(w.h.insts)
         IN  IF w.err # "" THEN w
             ELSE Ok([w.h EXCEPT !.lists[w.h.insts[wrapper]._parts] =
                        <<[part |-> "(", is_field |-> FALSE]>> \o @])

\* mutant: the parentheses are put into the text of the first and the last part
combine_unpadded(h, where_clause) ==
    IF where_clause.t # "Where" THEN Raise("ValueError", h)
    ELSE IF ~is_ready(h, where_clause.n) THEN Raise("ValueError", h)
    ELSE LET w == __init__(h, where_clause)
             wrapper == Len(w.h.insts)
             l == w.h.insts[wrapper]._parts
             n == Len(w.h.lists[l])
         IN  IF w.err # "" THEN w
             ELSE Ok([w.h EXCEPT !.lists[l][1].part = "(" \o @,
                                 !.lists[l][n].part = @ \o ")"])

combine(h, where_clause) ==
    IF where_clause.t # "Where" THEN Raise("ValueError", h)
    ELSE IF ~is_ready(h, where_clause.n) THEN Raise("ValueError", h)
    ELSE LET w == __init__(h, where_clause)
             wrapper == Len(w.h.insts)
         IN  IF w.err # "" THEN w
             ELSE Ok([w.h EXCEPT !.lists[w.h.insts[wrapper]._parts] =
                        <<[part |-> "(", is_field |-> FALSE]>> \o @
                        \o <<[part |-> ")", is_field |-> FALSE]>>])

\* mutant: the dict is emptied before the where clause is set
add_where_only(h, keyword_args, where_clause, datasource) ==
    IF ~Truthy(where_clause)
    THEN [err |-> "", h |-> h, calls |-> <<>>, kw |-> keyword_args, ret |-> PyNone]
    ELSE IF where_clause.t = "Where"
    THEN LET d == IF Truthy(datasource)
                  THEN delimit_fields(h, where_clause.n, datasource.s)
                  ELSE Ok(h)
             o == __str__(d.h, where_clause.n)
         IN  IF o.err # ""
             THEN [err |-> o.err, h |-> d.h, calls |-> d.calls, kw |-> keyword_args,
                   ret |-> PyNone]
             ELSE [err |-> "", h |-> d.h, calls |-> d.calls,
                   kw |-> [x \in {WHERE_KWARG} |-> o.out], ret |-> PyNone]
    ELSE IF where_clause.t = "str"
    THEN [err |-> "", h |-> h, calls |-> <<>>,
          kw |-> [x \in {WHERE_KWARG} |-> where_clause.s], ret |-> PyNone]
    ELSE [err |-> "ValueError", h |-> h, calls |-> <<>>, kw |-> keyword_args,
          ret |-> PyNone]

\* returns [err, h, calls, kw, ret]: kw is keyword_args after the call, ret the
\* value returned (the function has no return value)
add_where(h, keyword_args, where_clause, datasource) ==
    IF ~Truthy(where_clause)
    THEN [err |-> "", h |-> h, calls |-> <<>>, kw |-> keyword_args, ret |-> PyNone]
    ELSE IF where_clause.t = "Where"
    THEN LET d == IF Truthy(datasource)
                  THEN delimit_fields(h, where_clause.n, datasource.s)
                  ELSE Ok(h)
             o == __str__(d.h, where_clause.n)
         IN  IF o.err # ""
             THEN [err |-> o.err, h |-> d.h, calls |-> d.calls, kw |-> keyword_args,
                   ret |-> PyNone]
             ELSE [err |-> "", h |-> d.h, calls |-> d.calls,
                   kw |-> SetItem(keyword_args, WHERE_KWARG, o.out), ret |-> PyNone]
    ELSE IF where_clause.t = "str"
    THEN [err |-> "", h |-> h, calls |-> <<>>,
          kw |-> SetItem(keyword_args, WHERE_KWARG, where_clause.s), ret |-> PyNone]
    ELSE [err |-> "ValueError", h |-> h, calls |-> <<>>, kw |-> keyword_args,
          ret |-> PyNone]

----------------------------------------------------------------------------
(* The caller: the arguments it passes and the calls it makes *)

Refs == 1..Len(insts)

WhereRefs == {PyWhere(i) : i \in Refs}

\* arguments of Where() and combine()
InitArgs == {PyStr("A"), PyNone} \cup WhereRefs

\* arguments of And() and Or()
ConjArgs == {PyStr("B"), PyNone} \cup WhereRefs

\* arguments of the comparison methods
CompareValues == {PyInt(1), PyNone}

\* arguments of In, NotIn, Between and NotBetween
ValueLists ==
    { <<>>,
      <<PyInt(2), PyInt(1)>>,
      <<PyInt(1), PyStr("a")>> }

\* arguments of Like and NotLike: the value and the escape character
LikeArgs == {<<PyStr("a%"), PyNone>>, <<PyStr("a$%"), PyStr("$")>>, <<PyNone, PyNone>>}

Datasources == {"x.mdb", "x.sde"}

EmptyDict == [x \in {} |-> ""]
KeywordArgs == {[x \in {"test"} |-> "0"]}

\* where_clause arguments of add_where
WhereClauses == {PyNone, PyStr("A = 1"), PyInt(1)} \cup WhereRefs

FluentOps ==
    {"And", "Or", "In", "NotIn", "Between", "NotBetween", "Like", "NotLike",
     "Equals", "NotEquals", "GreaterThan", "LessThan", "GreaterThanOrEquals",
     "LessThanOrEquals", "IsNull", "IsNotNull"}

----------------------------------------------------------------------------
(* gpf.cursors.Editor: an edit session on a workspace *)

\* no Editor object yet; the fields of an Editor are isEditing (kept by the
\* arcpy base class), _undo and _versioned; calls is the sequence of calls
\* made on the arcpy base class
NoEditor ==
    [made |-> FALSE, isEditing |-> FALSE, _undo |-> FALSE, _versioned |-> FALSE,
     calls |-> <<>>]

\* super().<f>(*args): the arcpy edit session is editing from startEditing
\* until stopEditing
ArcCall(e, f, args) ==
    [e EXCEPT !.calls = Append(@, [f |-> f, args |-> args]),
              !.isEditing = CASE f = "startEditing" -> TRUE
                              [] f = "stopEditing" -> FALSE
                              [] OTHER -> @]

\* Editor(path, with_undo): versioned is what ListVersions tells of a remote path
Editor__init__(versioned, with_undo) ==
    [made |-> TRUE, isEditing |-> FALSE, _undo |-> versioned \/ with_undo,
     _versioned |-> versioned, calls |-> <<>>]

\* a start() that opens a session whatever the state of the editor
Editor_start_always(e, with_undo) ==
    LET e1 == [e EXCEPT !._undo = e._versioned \/ with_undo]
    IN  ArcCall(ArcCall(e1, "startEditing", <<e1._undo, e1._versioned>>),
                "startOperation", <<>>)

\* Editor.start(with_undo)
Editor_start(e, with_undo) ==
    IF e.isEditing
    THEN e
    ELSE LET e1 == [e EXCEPT !._undo = e._versioned \/ with_undo]
         IN  ArcCall(ArcCall(e1, "startEditing", <<e1._undo, e1._versioned>>),
                     "startOperation", <<>>)

\* Editor.stop(save)
Editor_stop(e, save) ==
    IF ~e.isEditing
    THEN e
    ELSE LET e1 == IF save
                   THEN ArcCall(e, "stopOperation", <<>>)
                   ELSE IF e._undo /\ e._versioned
                        THEN ArcCall(e, "undoOperation", <<>>)
                        ELSE ArcCall(e, "abortOperation", <<>>)
         IN  ArcCall(e1, "stopEditing", <<save>>)

\* Editor.__enter__()
Editor__enter__(e) == Editor_start(e, e._undo)

\* an __exit__ that saves whatever happened in the block
Editor__exit__saving(e, raised) == Editor_stop(e, TRUE)

\* Editor.__exit__(exc_type, exc_val, exc_tb): raised tells whether exc_type is set
Editor__exit__(e, raised) ==
    IF raised THEN Editor_stop(e, FALSE) ELSE Editor_stop(e, TRUE)

----------------------------------------------------------------------------
(* gpf.cursors.InsertCursor *)

\* no InsertCursor object yet; _field_map tells whether the attribute is set
NoCursor == [made |-> FALSE, _editor |-> NoEditor, _field_map |-> FALSE]

\* InsertCursor(datatable, field_names, auto_edit=auto_edit): fails is the
\* message of the RuntimeError the first arcpy constructor call raises ("" for
\* none); the call made once a session is open succeeds
InsertCursor__init__(fails, auto_edit, versioned) ==
    IF fails = ""
    THEN [err |-> "", c |-> [made |-> TRUE, _editor |-> NoEditor, _field_map |-> TRUE]]
    ELSE IF fails = "edit session" /\ auto_edit
    THEN [err |-> "",
          c |-> [made |-> TRUE,
                 _editor |-> Editor_start(Editor__init__(versioned, FALSE), FALSE),
                 _field_map |-> FALSE]]
    ELSE [err |-> "RuntimeError", c |-> NoCursor]

\* InsertCursor.newRow(): reads self._field_map
newRow(c) == IF c._field_map THEN "" ELSE "AttributeError"

\* InsertCursor._close(save)
_close(c, save) ==
    IF c._editor.made THEN [c EXCEPT !._editor = Editor_stop(@, save)] ELSE c

----------------------------------------------------------------------------
(* gpf.paths: geodatabase paths, with the os.path of Windows (ntpath) for  *)
(* paths without "." and ".." components that do not end at a drive root   *)

ESRI_GDB_EXTENSIONS == <<".sde", ".gdb", ".mdb", ".accdb">>
IN_MEMORY_WORKSPACE == "in_memory"

\* the lower case letter of every upper case letter
LowerCase ==
    LET up == "ABCDEFGHIJKLMNOPQRSTUVWXYZ"
        lo == "abcdefghijklmnopqrstuvwxyz"
    IN  [c \in {Char(up, i) : i \in 1..26} |->
            Char(lo, CHOOSE i \in 1..26 : Char(up, i) = c)]

\* str.lower() and str.casefold() on ASCII text
RECURSIVE Lower(_)
Lower(s) ==
    IF Len(s) = 0 THEN ""
    ELSE (IF Char(s, 1) \in DOMAIN LowerCase THEN LowerCase[Char(s, 1)] ELSE Char(s, 1))
            \o Lower(SubSeq(s, 2, Len(s)))

\* str.count(sub): the non-overlapping occurrences of sub in s
RECURSIVE StrCount(_, _)
StrCount(s, sub) ==
    IF Len(s) < Len(sub) THEN 0
    ELSE IF SubSeq(s, 1, Len(sub)) = sub
         THEN 1 + StrCount(SubSeq(s, Len(sub) + 1, Len(s)), sub)
         ELSE StrCount(SubSeq(s, 2, Len(s)), sub)

\* the position of the last character of s that is in chars, 0 if there is none
RECURSIVE LastIndex(_, _)
LastIndex(s, chars) ==
    IF Len(s) = 0 THEN 0
    ELSE IF Contains(chars, Char(s, Len(s))) THEN Len(s)
    ELSE LastIndex(SubSeq(s, 1, Len(s) - 1), chars)

\* os.path.normpath: slashes become backslashes, empty components go, "" is "."
normpath(path) ==
    LET RECURSIVE Split(_, _)
        Split(s, word) ==
            IF Len(s) = 0 THEN (IF word = "" THEN <<>> ELSE <<word>>)
            ELSE IF Contains("/\\", Char(s, 1))
                 THEN (IF word = "" THEN <<>> ELSE <<word>>) \o Split(SubSeq(s, 2, Len(s)), "")
                 ELSE Split(SubSeq(s, 2, Len(s)), word \o Char(s, 1))
        parts == Split(path, "")
    IN  IF parts = <<>> THEN "." ELSE Join("\\", parts)

\* os.path.dirname: what stands before the last separator, less its trailing separators
dirname(path) ==
    LET head == SubSeq(path, 1, LastIndex(path, "/\\"))
    IN  IF RStrip(head, "/\\") = "" THEN head ELSE RStrip(head, "/\\")

\* the directory of the module that calls get_abs (gpf/paths.py)
PackageDir == "C:\\py\\gpf"

\* get_abs(path)
get_abs(path) ==
    LET isabs == \/ Len(path) >= 1 /\ Contains("/\\", Char(path, 1))
                 \/ Len(path) >= 3 /\ Char(path, 2) = ":" /\ Contains("/\\", Char(path, 3))
    IN  IF isabs THEN normpath(path) ELSE normpath(PackageDir \o "\\" \o path)

\* is_gdbpath(path)
is_gdbpath(path) ==
    IF Lower(path) = IN_MEMORY_WORKSPACE THEN TRUE
    ELSE LET abs == Lower(get_abs(path))
             RECURSIVE Hits(_)
             Hits(k) == IF k = 0 THEN 0 ELSE Hits(k - 1) + StrCount(abs, ESRI_GDB_EXTENSIONS[k])
         IN  Hits(Len(ESRI_GDB_EXTENSIONS)) = 1

\* Workspace._is_gdb_root(path)
_is_gdb_root(path) ==
    \/ \E k \in 1..Len(ESRI_GDB_EXTENSIONS) : EndsWith(Lower(path), ESRI_GDB_EXTENSIONS[k])
    \/ Lower(path) = IN_MEMORY_WORKSPACE

\* Workspace.get_parent(path, outside_gdb)
get_parent(path, outside_gdb) ==
    IF Lower(path) = IN_MEMORY_WORKSPACE THEN path
    ELSE LET parent_dir == normpath(dirname(path))
         IN  IF outside_gdb \/ ~is_gdbpath(path) THEN parent_dir
             ELSE IF _is_gdb_root(path) THEN normpath(path) ELSE parent_dir

\* Workspace.get_root(path)
get_root(path) ==
    LET parent == get_parent(path, FALSE)
    IN  IF ~is_gdbpath(path) THEN parent
        ELSE IF _is_gdb_root(parent) THEN normpath(parent)
        ELSE get_parent(parent, FALSE)

----------------------------------------------------------------------------
(* gpf.paths.Workspace *)

\* what arcpy lists in the workspace: (feature dataset, feature class) pairs
\* in listing order, qualified in a remote database
Contents(is_remote) ==
    IF is_remote
    THEN <<<<"user.ele", "user.ele_kabel">>, <<"user.was", "user.was_rohr">>>>
    ELSE <<<<"ele", "ele_kabel">>, <<"was", "was_rohr">>>>

\* no Workspace object yet
NoWorkspace ==
    [made |-> FALSE, _path |-> "", _is_remote |-> FALSE, _sep |-> "", _qualifier |-> "",
     _fds_lookup |-> EmptyDict]

\* unqualify(element)
unqualify(element) ==
    LET name == SubSeq(element, LastIndex(element, "/\\") + 1, Len(element))
    IN  SubSeq(name, LastIndex(name, ".") + 1, Len(name))

\* separator.join(name.split(separator)[:-1])
Qualifier(name, separator) ==
    LET k == LastIndex(name, separator) IN IF k = 0 THEN "" ELSE SubSeq(name, 1, k - 1)

\* Workspace._fix_qualifier(qualifier, separator)
_fix_qualifier(qualifier, separator) ==
    IF qualifier # "" /\ ~EndsWith(qualifier, separator)
    THEN qualifier \o separator
    ELSE qualifier

\* Workspace(path, qualifier), with its _get_qualifier
Workspace__init__(path, qualifier) ==
    LET _path == normpath(path)
        _is_remote == EndsWith(get_root(Lower(_path)), ".sde")
        given == IF ~_is_remote THEN "" ELSE qualifier
        found == IF given = "" /\ _is_remote
                 THEN Qualifier(Contents(TRUE)[1][1], ".")
                 ELSE given
    IN  [made |-> TRUE, _path |-> _path, _is_remote |-> _is_remote, _sep |-> ".",
         _qualifier |-> _fix_qualifier(found, "."), _fds_lookup |-> EmptyDict]

\* Workspace.qualify(name, qualifier, separator) for a name that is not empty
qualify(w, name, qualifier, separator) ==
    IF w._qualifier = "" \/ StrCount(name, w._sep) > 0 THEN name
    ELSE IF qualifier # ""
         THEN _fix_qualifier(qualifier, IF separator # "" THEN separator ELSE w._sep)
                 \o unqualify(name)
         ELSE w._qualifier \o unqualify(name)

\* Workspace._map_fc(lookup, *parts): the lookup with the pair appended
_map_fc(w, lookup, parts) ==
    IF Len(parts) # 2 THEN lookup
    ELSE IF parts[1] = "" THEN lookup
    ELSE LET fc_key == unqualify(Lower(parts[2]))
             fc_values == IF fc_key \in DOMAIN lookup THEN lookup[fc_key] ELSE <<>>
         IN  [k \in DOMAIN lookup \cup {fc_key} |->
                 IF k = fc_key THEN Append(fc_values, qualify(w, parts[1], "", ""))
                 ELSE lookup[k]]

\* Workspace._map_fds()
_map_fds(w) ==
    LET RECURSIVE Each(_, _)
        Each(lookup, pairs) ==
            IF pairs = <<>> THEN lookup
            ELSE Each(_map_fc(w, lookup, Head(pairs)), Tail(pairs))
    IN  Each(EmptyDict, Contents(w._is_remote))

\* Workspace._make_path(qualifier, separator, *parts)
_make_path(w, qualifier, separator, parts) ==
    LET RECURSIVE Each(_)
        Each(ps) ==
            IF ps = <<>> THEN <<>>
            ELSE (IF Head(ps) = "" THEN <<>>
                  ELSE <<qualify(w, Head(ps), qualifier, separator)>>) \o Each(Tail(ps))
    IN  normpath(Join("\\", <<w._path>> \o Each(parts)))

\* arcpy.Exists(path) for the path of a feature class
Exists(w, path) ==
    \E k \in 1..Len(Contents(w._is_remote)) :
        path = normpath(Join("\\", <<w._path>> \o Contents(w._is_remote)[k]))

\* Workspace.find_path(table, refresh)
find_path(w, table, refresh) ==
    LET lookup == IF refresh \/ DOMAIN w._fds_lookup = {} THEN _map_fds(w) ELSE w._fds_lookup
        table_name == unqualify(table)
        fds == IF Lower(table_name) \in DOMAIN lookup THEN lookup[Lower(table_name)] ELSE <<"">>
        path == _make_path(w, Qualifier(fds[1], w._sep), w._sep, <<fds[1], table_name>>)
        w1 == [w EXCEPT !._fds_lookup = lookup]
    IN  IF Len(fds) > 1
        THEN [w |-> w1, err |-> "ValueError", msg |-> "could belong to", out |-> ""]
        ELSE IF ~Exists(w, path)
        THEN [w |-> w1, err |-> "ValueError", msg |-> "was not found", out |-> ""]
        ELSE [w |-> w1, err |-> "", msg |-> "", out |-> path]

\* Workspace.make_path(*parts)
make_path(w, parts) ==
    IF Len(parts) > 2
    THEN [w |-> w, err |-> "IndexError", msg |-> "", out |-> ""]
    ELSE [w |-> [w EXCEPT !._fds_lookup = _map_fc(w, w._fds_lookup, parts)],
          err |-> "", msg |-> "",
          out |-> _make_path(w, w._qualifier, w._sep, parts)]

----------------------------------------------------------------------------
(* The calls *)

InBounds(h) ==
    /\ Len(h.insts) <= MaxObjs
    /\ \A l \in 1..Len(h.lists) : Len(h.lists[l]) <= MaxParts

\* the heap the caller sees after outcome r: an exception leaves no new object
After(r) == IF r.err # "" THEN Unwind(Heap, r.h) ELSE r.h

\* the call of op ended with outcome r
Returned(op, r) ==
    /\ InBounds(After(r))
    /\ insts' = After(r).insts
    /\ lists' = After(r).lists
    /\ last' = [op |-> op, err |-> r.err]
    /\ delims' = r.calls
    /\ UNCHANGED <<editor, cursor, workspace>>

Init ==
    /\ insts = <<>>
    /\ lists = <<>>
    /\ last = [op |-> "", err |-> ""]
    /\ delims = <<>>
    /\ editor = [obj |-> NoEditor, with_undo |-> FALSE, inWith |-> FALSE, opened |-> ""]
    /\ cursor = NoCursor
    /\ workspace = [obj |-> NoWorkspace, searched |-> FALSE]

\* Where(x)
New(x) == Returned("Where", __init__(Heap, x))

\* instance.<op>(...) of a decorated method
Fluent(i, call) == Returned(call.op, _return_new(Heap, i, call))

CallAnd(i, x) == Fluent(i, Call("And", x, <<>>, PyNone))
CallOr(i, x) == Fluent(i, Call("Or", x, <<>>, PyNone))
CallIn(i, vs) == Fluent(i, Call("In", PyNone, vs, PyNone))
CallNotIn(i, vs) == Fluent(i, Call("NotIn", PyNone, vs, PyNone))
CallBetween(i, vs) == Fluent(i, Call("Between", PyNone, vs, PyNone))
CallNotBetween(i, vs) == Fluent(i, Call("NotBetween", PyNone, vs, PyNone))
CallLike(i, v, e) == Fluent(i, Call("Like", v, <<>>, e))
CallNotLike(i, v, e) == Fluent(i, Call("NotLike", v, <<>>, e))
CallEquals(i, v) == Fluent(i, Call("Equals", v, <<>>, PyNone))
CallNotEquals(i, v) == Fluent(i, Call("NotEquals", v, <<>>, PyNone))
CallGreaterThan(i, v) == Fluent(i, Call("GreaterThan", v, <<>>, PyNone))
CallLessThan(i, v) == Fluent(i, Call("LessThan", v, <<>>, PyNone))
CallGreaterThanOrEquals(i, v) == Fluent(i, Call("GreaterThanOrEquals", v, <<>>, PyNone))
CallLessThanOrEquals(i, v) == Fluent(i, Call("LessThanOrEquals", v, <<>>, PyNone))
CallIsNull(i) == Fluent(i, Call("IsNull", PyNone, <<>>, PyNone))
CallIsNotNull(i) == Fluent(i, Call("IsNotNull", PyNone, <<>>, PyNone))

\* combine(x)
CallCombine(x) == Returned("combine", combine(Heap, x))

\* str(instance)
CallStr(i) == Returned("str", __str__(Heap, i))

\* repr(instance)
CallRepr(i) == Returned("repr", __repr__(Heap, i))

\* instance.fields and instance.is_ready: properties that read the object
CallFields(i) == Returned("fields", Ok(Heap))
CallIsReady(i) == Returned("is_ready", Ok(Heap))

\* instance.get_kwargs(**kw): builds the caller a new dict
CallGetKwargs(i, kw) == Returned("get_kwargs", Ok(Heap))

\* instance.delimit_fields(datasource)
CallDelimitFields(i, ds) == Returned("delimit_fields", delimit_fields(Heap, i, ds))

\* add_where(kw, w, ds)
CallAddWhere(kw, w, ds) ==
    LET r == add_where(Heap, kw, w, ds)
    IN  Returned("add_where", [err |-> r.err, h |-> r.h, out |-> "", calls |-> r.calls])

\* the calls that build and read expressions
Build ==
    \/ \E x \in InitArgs : New(x)
    \/ \E i \in Refs, x \in ConjArgs : CallAnd(i, x)
    \/ \E i \in Refs, x \in ConjArgs : CallOr(i, x)
    \/ \E i \in Refs, vs \in ValueLists : CallIn(i, vs)
    \/ \E i \in Refs, vs \in ValueLists : CallNotIn(i, vs)
    \/ \E i \in Refs, vs \in ValueLists : CallBetween(i, vs)
    \/ \E i \in Refs, vs \in ValueLists : CallNotBetween(i, vs)
    \/ \E i \in Refs, a \in LikeArgs : CallLike(i, a[1], a[2])
    \/ \E i \in Refs, a \in LikeArgs : CallNotLike(i, a[1], a[2])
    \/ \E i \in Refs, v \in CompareValues : CallEquals(i, v)
    \/ \E i \in Refs, v \in CompareValues : CallNotEquals(i, v)
    \/ \E i \in Refs, v \in CompareValues : CallGreaterThan(i, v)
    \/ \E i \in Refs, v \in CompareValues : CallLessThan(i, v)
    \/ \E i \in Refs, v \in CompareValues : CallGreaterThanOrEquals(i, v)
    \/ \E i \in Refs, v \in CompareValues : CallLessThanOrEquals(i, v)
    \/ \E i \in Refs : CallIsNull(i)
    \/ \E i \in Refs : CallIsNotNull(i)
    \/ \E x \in InitArgs : CallCombine(x)
    \/ \E i \in Refs : CallStr(i)
    \/ \E i \in Refs : CallRepr(i)
    \/ \E i \in Refs : CallFields(i)
    \/ \E i \in Refs : CallIsReady(i)
    \/ \E i \in Refs, kw \in KeywordArgs : CallGetKwargs(i, kw)

\* the calls that hand an expression to a data source
Delimit ==
    \/ \E i \in Refs, ds \in Datasources : CallDelimitFields(i, ds)
    \/ \E kw \in KeywordArgs, w \in WhereClauses, ds \in {PyNone, PyStr("x.mdb")} :
          CallAddWhere(kw, w, ds)

Next == Build

Spec == Init /\ [][Next]_vars

\* a caller that builds with a sample of the terminal methods and delimits the fields
NextDelimit ==
    \/ \E x \in InitArgs : New(x)
    \/ \E i \in Refs, x \in ConjArgs : CallAnd(i, x)
    \/ \E i \in Refs, x \in ConjArgs : CallOr(i, x)
    \/ \E i \in Refs, vs \in ValueLists : CallBetween(i, vs)
    \/ \E i \in Refs, v \in CompareValues : CallEquals(i, v)
    \/ \E i \in Refs : CallIsNull(i)
    \/ \E x \in InitArgs : CallCombine(x)
    \/ \E i \in Refs : CallStr(i)
    \/ \E i \in Refs : CallRepr(i)
    \/ \E i \in Refs : CallFields(i)
    \/ \E i \in Refs : CallIsReady(i)
    \/ \E i \in Refs, kw \in KeywordArgs : CallGetKwargs(i, kw)
    \/ Delimit

SpecDelimit == Init /\ [][NextDelimit]_vars

----------------------------------------------------------------------------
(* What the claims speak of *)

\* the object i as its caller sees it: its tuples and its state
View(i) == [parts |-> Parts(Heap, i), isdirty |-> IsDirty(Heap, i)]

\* the object a successful call on the current heap returned
NewOf(r) == Len(r.h.insts)

\* the objects of the current heap are in heap h what they are now
Untouched(h) ==
    /\ Len(h.insts) >= Len(insts)
    /\ \A i \in Refs :
          /\ Parts(h, i) = Parts(Heap, i)
          /\ IsDirty(h, i) = IsDirty(Heap, i)

\* object n of heap h has a list of its own
OwnList(h, n) == \A i \in 1..Len(h.insts) : i # n => h.insts[i]._parts # h.insts[n]._parts

ConjunctionTexts == {SQL_AND, SQL_OR}

OperatorTexts ==
    {SQL_EQ, SQL_NE, SQL_LT, SQL_LE, SQL_GT, SQL_GE, SQL_IN, SQL_LIKE, SQL_BETWEEN,
     SQL_NOT \o CHAR_SPACE \o SQL_IN, SQL_NOT \o CHAR_SPACE \o SQL_LIKE,
     SQL_NOT \o CHAR_SPACE \o SQL_BETWEEN, SQL_IS \o CHAR_SPACE \o SQL_NULL,
     Join(CHAR_SPACE, <<SQL_IS, SQL_NOT, SQL_NULL>>)}

IsOperator(t) == ~t.is_field /\ t.part \in OperatorTexts

CompareOps ==
    {"Equals", "NotEquals", "GreaterThan", "LessThan", "GreaterThanOrEquals",
     "LessThanOrEquals"}

TerminalOps == FluentOps \ {"And", "Or"}

\* calls of every terminal method with values it accepts
ValidTerminalCalls ==
    {Call(op, PyInt(1), <<>>, PyNone) : op \in CompareOps}
    \cup {Call(op, PyStr("a"), <<>>, PyNone) : op \in CompareOps}
    \cup {Call(op, PyNone, <<>>, PyNone) : op \in {"IsNull", "IsNotNull"}}
    \cup {Call(op, PyStr("a%"), <<>>, e) : op \in {"Like", "NotLike"}, e \in {PyNone, PyStr("$")}}
    \cup {Call(op, PyNone, vs, PyNone) :
            op \in {"In", "NotIn", "Between", "NotBetween"},
            vs \in {<<PyInt(2), PyInt(1)>>, <<PyList(<<PyStr("a"), PyStr("b")>>)>>}}

\* two operators follow one field: no field stands between two operator tuples
TwoOperators(parts) ==
    \E p, q \in 1..Len(parts) :
        /\ p < q
        /\ IsOperator(parts[p]) /\ IsOperator(parts[q])
        /\ \A k \in (p + 1)..(q - 1) : ~parts[k].is_field

----------------------------------------------------------------------------
(* C1: every fluent method returns a new object with a list of its own and    *)
(* leaves every object there was, the receiver and a Where passed to And/Or   *)
(* among them, with the tuples and the is_ready it had, whether the call      *)
(* returns or raises; a call that raises returns no object.                   *)
C1_FluentFrame ==
    [][last'.op \in FluentOps =>
          /\ Untouched(Heap')
          /\ IF last'.err = ""
             THEN Len(insts') = Len(insts) + 1 /\ OwnList(Heap', Len(insts'))
             ELSE Len(insts') = Len(insts)]_vars

\* And() with a Where argument returned the third object
C1_Witness ==
    /\ last.op = "And" /\ last.err = "" /\ Len(insts) = 3
    /\ \E i, j \in 1..2 :
          View(3).parts = View(i).parts \o <<[part |-> SQL_AND, is_field |-> FALSE]>>
                          \o View(j).parts

(* C2 as stated: a terminal operator with valid values on a complete instance *)
(* always raises OverflowError, and no instance has two operators on a field. *)
C2_Original ==
    /\ \A i \in Refs, call \in ValidTerminalCalls :
          is_ready(Heap, i) => _return_new(Heap, i, call).err = "OverflowError"
    /\ \A i \in Refs : ~TwoOperators(View(i).parts)

(* C2 amended: a terminal operator with valid values on a complete instance   *)
(* always raises SyntaxError and leaves the heap as it was; no instance has   *)
(* two operators attached to the same field.                                  *)
C2_SecondOperatorRaises ==
    /\ \A i \in Refs, call \in ValidTerminalCalls :
          is_ready(Heap, i) =>
              LET r == _return_new(Heap, i, call)
              IN  r.err = "SyntaxError" /\ After(r) = Heap
    /\ \A i \in Refs : ~TwoOperators(View(i).parts)

\* a terminal method was called on a complete instance and raised SyntaxError
C2_Witness ==
    /\ last.op \in TerminalOps /\ last.err = "SyntaxError"
    /\ \E i \in Refs : is_ready(Heap, i)

(* C3: is_ready of an instance is false exactly when its last tuple is a      *)
(* field; in an instance that is ready every field is directly followed by an *)
(* operator.                                                                  *)
C3_ReadyIffNoOpenField ==
    \A i \in Refs :
        LET parts == View(i).parts
        IN  /\ parts # <<>>
            /\ ~is_ready(Heap, i) <=> parts[Len(parts)].is_field
            /\ is_ready(Heap, i) =>
                  \A k \in 1..Len(parts) :
                      parts[k].is_field => k < Len(parts) /\ IsOperator(parts[k + 1])

\* an open instance beside a ready one with two fields
C3_Witness ==
    \E i, j \in Refs :
        /\ ~is_ready(Heap, i)
        /\ is_ready(Heap, j) /\ Len(fields(Heap, j)) = 2

\* the tuple of a conjunction
Conj(text) == [part |-> text, is_field |-> FALSE]

\* the outcome of instance i's And (op "And") or Or (op "Or") with argument x
Combined(i, op, x) == _return_new(Heap, i, Call(op, x, <<>>, PyNone))

ConjText(op) == IF op = "And" THEN SQL_AND ELSE SQL_OR

(* C4 as stated: And(other) and Or(other) raise whenever the receiver or the  *)
(* Where passed is incomplete, so a successful And/Or of two Where instances  *)
(* returns a complete expression.                                             *)
C4_Original ==
    \A i, j \in Refs, op \in {"And", "Or"} :
        LET r == Combined(i, op, PyWhere(j))
        IN  /\ (~is_ready(Heap, i) \/ ~is_ready(Heap, j)) => r.err # ""
            /\ r.err = "" => is_ready(r.h, NewOf(r))

(* C4 amended: And(other) and Or(other) raise (SyntaxError) exactly when the  *)
(* receiver is incomplete; with a complete receiver and a Where argument the  *)
(* call returns the receiver's tuples, the conjunction and the argument's     *)
(* tuples, and the result is complete exactly when the argument is.           *)
C4_ConjunctionNeedsReadyReceiver ==
    \A i, j \in Refs, op \in {"And", "Or"} :
        LET r == Combined(i, op, PyWhere(j))
        IN  IF ~is_ready(Heap, i)
            THEN r.err = "SyntaxError" /\ After(r) = Heap
            ELSE /\ r.err = ""
                 /\ Parts(r.h, NewOf(r)) =
                       View(i).parts \o <<Conj(ConjText(op))>> \o View(j).parts
                 /\ is_ready(r.h, NewOf(r)) = is_ready(Heap, j)

\* Or() with an open Where argument returned an open expression
C4_Witness ==
    /\ last.op = "Or" /\ last.err = "" /\ Len(insts) = 3
    /\ ~is_ready(Heap, 3)
    /\ \E i, j \in 1..2 :
          /\ ~is_ready(Heap, j)
          /\ View(3).parts = View(i).parts \o <<Conj(SQL_OR)>> \o View(j).parts

\* arguments of combine() that are no Where instance
NotWhereArgs == {PyStr("A"), PyStr(""), PyNone, PyInt(1), PyObject}

(* C5: combine(w) raises when w is no Where instance or is incomplete, and    *)
(* then returns no object; otherwise it returns a new complete expression     *)
(* whose tuples are "(", the tuples of w and ")", with a list of its own, and *)
(* w and every other object are as before.                                    *)
C5_CombineWrapsReady ==
    /\ \A x \in NotWhereArgs :
          combine(Heap, x).err = "ValueError" /\ After(combine(Heap, x)) = Heap
    /\ \A j \in Refs :
          LET r == combine(Heap, PyWhere(j))
          IN  IF ~is_ready(Heap, j)
              THEN r.err = "ValueError" /\ After(r) = Heap
              ELSE /\ r.err = ""
                   /\ NewOf(r) = Len(insts) + 1
                   /\ Parts(r.h, NewOf(r)) =
                         <<Conj("(")>> \o View(j).parts \o <<Conj(")")>>
                   /\ is_ready(r.h, NewOf(r))
                   /\ OwnList(r.h, NewOf(r))
                   /\ Untouched(r.h)

\* combine() returned the wrapped copy of a complete instance
C5_Witness ==
    /\ last.op = "combine" /\ last.err = "" /\ Len(insts) = 3
    /\ \E j \in 1..2 :
          /\ is_ready(Heap, j)
          /\ View(3).parts = <<Conj("(")>> \o View(j).parts \o <<Conj(")")>>

\* what repr() returns for object n of heap h
Rendered(h, n) == __repr__(h, n).out

(* C6 as stated: Where(e) is complete and renders as combine(e) does.         *)
C6_Original ==
    \A j \in Refs :
        LET r == __init__(Heap, PyWhere(j))
            c == combine(Heap, PyWhere(j))
        IN  /\ r.err = "" /\ is_ready(r.h, NewOf(r))
            /\ c.err = "" /\ Rendered(r.h, NewOf(r)) = Rendered(c.h, NewOf(c))

(* C6 amended: Where(e) is a copy of e: a new object with a list of its own   *)
(* that has the tuples of e and the is_ready of e (complete exactly when e    *)
(* is) and renders as e does, without parentheses; e is as before.            *)
C6_InitCopies ==
    \A j \in Refs :
        LET r == __init__(Heap, PyWhere(j))
        IN  /\ r.err = ""
            /\ NewOf(r) = Len(insts) + 1
            /\ Parts(r.h, NewOf(r)) = View(j).parts
            /\ is_ready(r.h, NewOf(r)) = is_ready(Heap, j)
            /\ Rendered(r.h, NewOf(r)) = Rendered(Heap, j)
            /\ OwnList(r.h, NewOf(r))
            /\ Untouched(r.h)

\* Where(e) returned the copy of an instance of several tuples
C6_Witness ==
    /\ last.op = "Where" /\ last.err = "" /\ Len(insts) = 3
    /\ Len(View(3).parts) > 1
    /\ \E j \in 1..2 : View(3) = View(j)

\* arguments of Where() that are an empty string or neither text nor a Where
BadInitArgs == {PyStr(""), PyNone, PyInt(1), PyObject}

(* C7: Where(x) raises, and makes no instance, whenever x is an empty string  *)
(* or is neither text nor a Where instance.                                   *)
C7_BadInitRaises ==
    \A x \in BadInitArgs :
        __init__(Heap, x).err # "" /\ After(__init__(Heap, x)) = Heap

(* C8: str() of an instance raises ValueError exactly when the instance is    *)
(* incomplete and raises nothing else, repr() never raises, and for a         *)
(* complete instance both return the same string.                             *)
C8_StrChecksReprDoesNot ==
    \A i \in Refs :
        /\ __str__(Heap, i).err = (IF is_ready(Heap, i) THEN "" ELSE "ValueError")
        /\ __repr__(Heap, i).err = ""
        /\ is_ready(Heap, i) => __str__(Heap, i).out = __repr__(Heap, i).out

\* str() raised on an open instance that repr() renders
C8_Witness ==
    /\ last.op = "str" /\ last.err = "ValueError"
    /\ \E i \in Refs : ~is_ready(Heap, i) /\ __repr__(Heap, i).out = "A IS NULL AND B"

\* the steps that hand an expression to a data source and reached its delimiting function
Delimiting == last'.op \in {"delimit_fields", "add_where"} /\ delims' # <<>>

(* C9 as stated: no public operation, delimit_fields and add_where included,  *)
(* changes the string that repr() of an existing instance returns.            *)
C9_Original ==
    [][\A i \in Refs : Rendered(Heap', i) = Rendered(Heap, i)]_vars

(* C9 amended: an instance is rewritten in place by delimit_fields and by     *)
(* add_where with a data source, and by nothing else: every step that did not *)
(* reach the delimiting function leaves the tuples, the is_ready and the      *)
(* repr() string of every existing instance unchanged, and a step that did    *)
(* changes the repr() string of at most one instance and the length and the   *)
(* is_ready of none.                                                          *)
C9_OnlyDelimitingRewrites ==
    [][/\ ~Delimiting =>
             \A i \in Refs : /\ Parts(Heap', i) = Parts(Heap, i)
                             /\ is_ready(Heap', i) = is_ready(Heap, i)
                             /\ Rendered(Heap', i) = Rendered(Heap, i)
       /\ Delimiting =>
             /\ Len(insts') = Len(insts)
             /\ Cardinality({i \in Refs : Rendered(Heap', i) # Rendered(Heap, i)}) <= 1
             /\ \A i \in Refs : /\ Len(Parts(Heap', i)) = Len(Parts(Heap, i))
                                /\ is_ready(Heap', i) = is_ready(Heap, i)]_vars

\* delimit_fields() left an instance that renders with delimited field names
C9_Witness ==
    /\ last.op = "delimit_fields" /\ last.err = ""
    /\ \E i \in Refs : Rendered(Heap, i) = "[A] IS NULL AND [B]"

\* the tuple of object self at index k, before and after a call that returned r
Same(r, self, k) == Parts(r.h, self)[k] = Parts(Heap, self)[k]

(* C10: delimit_fields(datasource) calls the delimiting function once per     *)
(* field tuple, in order, with the data source and the field name stripped of *)
(* delimiters, and stores what it returns as the text of that tuple; the      *)
(* number and order of the tuples, their is_field flags, every tuple that is  *)
(* no field, is_ready and every other object are unchanged, and it never      *)
(* raises.                                                                    *)
C10_DelimitRewritesFieldsOnly ==
    \A i \in Refs, ds \in Datasources :
        LET r == delimit_fields(Heap, i, ds)
            old == Parts(Heap, i)
            new == Parts(r.h, i)
            at == {k \in 1..Len(old) : old[k].is_field}
        IN  /\ r.err = ""
            /\ Len(r.h.insts) = Len(insts)
            /\ Len(new) = Len(old)
            /\ Len(r.calls) = Cardinality(at)
            /\ r.calls = [n \in 1..Len(r.calls) |-> <<ds, Strip(fields(Heap, i)[n], "[]\"")>>]
            /\ fields(r.h, i) =
                  [n \in 1..Len(r.calls) |-> AddFieldDelimiters(ds, r.calls[n][2])]
            /\ \A k \in 1..Len(old) :
                  /\ new[k].is_field = old[k].is_field
                  /\ ~old[k].is_field => Same(r, i, k)
            /\ is_ready(r.h, i) = is_ready(Heap, i)
            /\ \A j \in Refs \ {i} : Parts(r.h, j) = Parts(Heap, j)
                                     /\ is_ready(r.h, j) = is_ready(Heap, j)

\* delimit_fields() reached the delimiting function for each of two fields
C10_Witness ==
    /\ last.op = "delimit_fields" /\ last.err = "" /\ Len(delims) = 2
    /\ \E i \in Refs : 
          /\ fields(Heap, i) = <<"[A]", "[B]">>
          /\ Len(Parts(Heap, i)) > 3

----------------------------------------------------------------------------
(* A caller that passes values of every family to the methods that take values *)

\* the values passed: True, 1, 1.0, 2.5, 'a', 'b' and object()
Values ==
    {PyBool(TRUE), PyInt(1), PyFloat(10), PyFloat(25), PyStr("a"), PyStr("b"), PyObject}

\* *values of up to three separate arguments
ValueTuples == UNION {[1..n -> Values] : n \in 0..3}

\* *values the caller passes: separate arguments, or one list or tuple
ValueArgs ==
    { <<>>,
      <<PyInt(2)>>,
      <<PyInt(2), PyBool(TRUE), PyInt(1)>>,
      <<PyList(<<PyStr("b"), PyStr("a")>>)>>,
      <<PyStr("a"), PyInt(1)>>,
      <<PyObject>> }

\* value of a comparison
CompareArgs == {PyBool(TRUE), PyBool(FALSE), PyObject}

NextValues ==
    \/ \E x \in {PyStr("A")} : New(x)
    \/ \E i \in Refs, vs \in ValueArgs : CallIn(i, vs)
    \/ \E i \in Refs, vs \in ValueArgs : CallBetween(i, vs)
    \/ \E i \in Refs, v \in CompareArgs : CallEquals(i, v)

SpecValues == Init /\ [][NextValues]_vars

(* C11: In and NotIn render the distinct values in ascending order: two calls *)
(* on the same instance whose arguments hold equal values (in any order, with *)
(* any repetition, as separate arguments or as one list, bool, int and float  *)
(* mixed) both raise or return instances that render identically.             *)
C11_InOrderIndependent ==
    \A i \in Refs, op \in {"In", "NotIn"}, vs \in ValueTuples, ws \in ValueTuples :
        LET SameValues == /\ \A k \in 1..Len(vs) : HasEqual(ws, vs[k])
                          /\ \A k \in 1..Len(ws) : HasEqual(vs, ws[k])
            a == _return_new(Heap, i, Call(op, PyNone, vs, PyNone))
            b == _return_new(Heap, i, Call(op, PyNone, ws, PyNone))
            c == _return_new(Heap, i, Call(op, PyNone, <<PyList(ws)>>, PyNone))
        IN  SameValues =>
                /\ (a.err = "") = (b.err = "") /\ (a.err = "") = (c.err = "")
                /\ a.err = "" =>
                      /\ Rendered(a.h, NewOf(a)) = Rendered(b.h, NewOf(b))
                      /\ Rendered(a.h, NewOf(a)) = Rendered(c.h, NewOf(c))

(* C12: Between and NotBetween given two or more values of one family render *)
(* with the minimum and the maximum of the values only: every permutation of  *)
(* the same arguments, and the same values passed as one list, returns an     *)
(* instance that renders identically.                                         *)
C12_BetweenOrderIndependent ==
    \A i \in Refs, op \in {"Between", "NotBetween"}, vs \in ValueTuples, ws \in ValueTuples :
        LET Count(seq, v) == Cardinality({k \in 1..Len(seq) : seq[k] = v})
            Permutation == \A v \in Values : Count(vs, v) = Count(ws, v)
            a == _return_new(Heap, i, Call(op, PyNone, vs, PyNone))
            b == _return_new(Heap, i, Call(op, PyNone, ws, PyNone))
            c == _return_new(Heap, i, Call(op, PyNone, <<PyList(ws)>>, PyNone))
        IN  (Len(vs) >= 2 /\ Permutation /\ a.err = "") =>
                /\ b.err = "" /\ c.err = ""
                /\ Rendered(a.h, NewOf(a)) = Rendered(b.h, NewOf(b))
                /\ Rendered(a.h, NewOf(a)) = Rendered(c.h, NewOf(c))

(* C13: In and NotIn called with no value (no argument or an empty list) and  *)
(* Between and NotBetween called with fewer than two values, counted after    *)
(* one level of nesting is flattened, raise ValueError; no instance is made   *)
(* and the receiver and every other instance are as before.                   *)
C13_TooFewValuesRaise ==
    LET None == {<<>>, <<PyList(<<>>)>>}
        One == {<<v>> : v \in Values} \cup {<<PyList(<<v>>)>> : v \in Values}
                 \cup {<<PyList(<<>>), PyList(<<PyInt(1)>>)>>,
                       <<PyList(<<PyList(<<PyInt(1), PyFloat(25)>>)>>)>>}
        Few(op) == IF op \in {"In", "NotIn"} THEN None ELSE None \cup One
    IN  \A i \in Refs, op \in {"In", "NotIn", "Between", "NotBetween"} :
            \A vs \in Few(op) :
                LET r == _return_new(Heap, i, Call(op, PyNone, vs, PyNone))
                IN  r.err = "ValueError" /\ After(r) = Heap

\* Between() raised on the open instance, which would raise so for one value
C13_Witness ==
    /\ last.op = "Between" /\ last.err = "ValueError"
    /\ Len(insts) = 1 /\ ~is_ready(Heap, 1)
    /\ _return_new(Heap, 1, Call("Between", PyNone, <<PyInt(2)>>, PyNone)).err = "ValueError"

(* C14 as stated: In, NotIn, Between and NotBetween reject every list that    *)
(* mixes numbers with text or holds an object(), in any order, and accept     *)
(* every non-empty list of numbers only or of text only.                      *)
C14_Original ==
    \A i \in Refs, op \in {"In", "NotIn", "Between", "NotBetween"}, vs \in ValueTuples :
        LET r == _return_new(Heap, i, Call(op, PyNone, vs, PyNone))
            Numbers == \A k \in 1..Len(vs) : is_number(vs[k], TRUE)
            Text == \A k \in 1..Len(vs) : is_text(vs[k])
        IN  (~is_ready(Heap, i) /\ vs # <<>>) =>
                (r.err = "" <=> (Numbers \/ Text))

(* C14 amended: on an open instance In and NotIn accept exactly the lists of  *)
(* one or more values, Between and NotBetween exactly the lists of two or     *)
(* more values, that are numbers only (int, float, bool) or text only; every  *)
(* other list, in whatever order its values are given, separately or as one   *)
(* list, raises ValueError and leaves every instance as it was.               *)
C14_OneFamilyAccepted ==
    \A i \in Refs, op \in {"In", "NotIn", "Between", "NotBetween"}, vs \in ValueTuples :
        LET r == _return_new(Heap, i, Call(op, PyNone, vs, PyNone))
            w == _return_new(Heap, i, Call(op, PyNone, <<PyList(vs)>>, PyNone))
            Numbers == \A k \in 1..Len(vs) : is_number(vs[k], TRUE)
            Text == \A k \in 1..Len(vs) : is_text(vs[k])
            Enough == Len(vs) >= (IF op \in {"In", "NotIn"} THEN 1 ELSE 2)
        IN  ~is_ready(Heap, i) =>
                IF Enough /\ (Numbers \/ Text)
                THEN r.err = "" /\ w.err = ""
                ELSE /\ r.err = "ValueError" /\ After(r) = Heap
                     /\ w.err = "ValueError" /\ After(w) = Heap

\* In() with a number after text raised, beside an instance that In() returned
C14_Witness ==
    /\ last.op = "In" /\ last.err = "ValueError"
    /\ \E i, j \in Refs :
          /\ ~is_ready(Heap, i)
          /\ _return_new(Heap, i, Call("In", PyNone, <<PyStr("a"), PyInt(1)>>, PyNone)).err
                = "ValueError"
          /\ Rendered(Heap, j) = "A IN ('a', 'b')"

C17_BoolRendersAsNumber ==
    LET Numbers == {PyBool(TRUE), PyBool(FALSE), PyInt(0), PyInt(1), PyInt(2), PyFloat(5)}
        Tuples == {vs \in UNION {[1..n -> Numbers] : n \in 1..3} :
                      \E k \in 1..Len(vs) : vs[k].t = "bool"}
        AsInt(v) == IF v.t = "bool" THEN PyInt(v.n) ELSE v
        Out(i, call) ==
            LET r == _return_new(Heap, i, call)
            IN  IF r.err # "" THEN r.err ELSE __str__(r.h, NewOf(r)).out
        Digit01(b) == IF b THEN "1" ELSE "0"
    IN  \A i \in Refs :
            ~is_ready(Heap, i) =>
                /\ \A op \in CompareOps, b \in BOOLEAN :
                      /\ Out(i, Call(op, PyBool(b), <<>>, PyNone))
                            = Out(i, Call(op, PyInt(IF b THEN 1 ELSE 0), <<>>, PyNone))
                      /\ Out(i, Call("Equals", PyBool(b), <<>>, PyNone))
                            = Rendered(Heap, i) \o " = " \o Digit01(b)
                /\ \A op \in {"In", "NotIn", "Between", "NotBetween"}, vs \in Tuples :
                      Out(i, Call(op, PyNone, vs, PyNone))
                         = Out(i, Call(op, PyNone, [k \in 1..Len(vs) |-> AsInt(vs[k])], PyNone))
                /\ Out(i, Call("In", PyNone, <<PyBool(TRUE), PyInt(2), PyInt(1), PyBool(FALSE)>>,
                               PyNone))
                      = Rendered(Heap, i) \o " IN (0, 1, 2)"
                /\ Out(i, Call("Between", PyNone, <<PyBool(TRUE), PyBool(FALSE)>>, PyNone))
                      = Rendered(Heap, i) \o " BETWEEN 0 AND 1"

\* Equals(False) and In(2, True, 1) returned instances that render 0 and 1 for the bools
C17_Witness ==
    /\ last.op = "In" /\ last.err = ""
    /\ \E i, j \in Refs : Rendered(Heap, i) = "A = 0" /\ Rendered(Heap, j) = "A IN (1, 2)"

(* C18 as stated: fields holds every field name of the expression exactly     *)
(* once, in the order of first occurrence.                                    *)
C18_Original ==
    \A i \in Refs :
        LET f == fields(Heap, i)
            parts == View(i).parts
        IN  /\ \A p, q \in 1..Len(f) : p # q => f[p] # f[q]
            /\ \A k \in 1..Len(parts) :
                  parts[k].is_field => \E p \in 1..Len(f) : f[p] = parts[k].part
            /\ \A p \in 1..Len(f) : \E k \in 1..Len(parts) :
                  parts[k].is_field /\ parts[k].part = f[p]

(* C18 amended: fields holds one entry for every field tuple of the           *)
(* expression, in the order of occurrence: a field name used in several       *)
(* clauses is there once per use.                                             *)
C18_FieldsPerOccurrence ==
    \A i \in Refs :
        LET f == fields(Heap, i)
            parts == View(i).parts
            at == {k \in 1..Len(parts) : parts[k].is_field}
        IN  /\ Len(f) = Cardinality(at)
            /\ \A k \in at : f[Cardinality({m \in at : m <= k})] = parts[k].part

\* fields was read on a heap with an instance that names the field A twice
C18_Witness ==
    /\ last.op = "fields" /\ last.err = ""
    /\ \E i \in Refs : fields(Heap, i) = <<"A", "A">> /\ is_ready(Heap, i)

(* C19: add_where(keyword_args, where_clause) returns None; for a non-empty    *)
(* string or a complete instance it sets keyword_args['where_clause'] to the  *)
(* string or to the rendered clause and leaves every other entry as it was;   *)
(* for a falsy value (None, an empty string, 0) it leaves keyword_args as it  *)
(* was; for an incomplete instance and for any other value that is neither a  *)
(* string nor an instance it raises ValueError and leaves keyword_args as it  *)
(* was. No instance is changed.                                               *)
C19_AddWhereSetsOneEntry ==
    LET Dicts == {EmptyDict, [x \in {"test"} |-> "0"],
                  [x \in {"test", WHERE_KWARG} |-> IF x = "test" THEN "0" ELSE "B = 2"]}
        Clauses == {PyNone, PyStr(""), PyInt(0), PyStr("A = 1"), PyInt(1), PyObject}
                      \cup WhereRefs
        Sets(kw, after, text) ==
            /\ DOMAIN after = DOMAIN kw \cup {WHERE_KWARG}
            /\ after[WHERE_KWARG] = text
            /\ \A k \in DOMAIN kw \ {WHERE_KWARG} : after[k] = kw[k]
    IN  \A kw \in Dicts, w \in Clauses :
            LET r == add_where(Heap, kw, w, PyNone)
            IN  /\ r.h = Heap /\ r.calls = <<>> /\ r.ret = PyNone
                /\ CASE w \in {PyNone, PyStr(""), PyInt(0)} -> r.err = "" /\ r.kw = kw
                     [] w.t = "str" /\ w.s # "" -> r.err = "" /\ Sets(kw, r.kw, w.s)
                     [] w.t = "Where" /\ is_ready(Heap, w.n) ->
                            r.err = "" /\ Sets(kw, r.kw, __repr__(Heap, w.n).out)
                     [] OTHER -> r.err = "ValueError" /\ r.kw = kw

\* add_where() returned, on a heap where it sets the clause of a complete instance
C19_Witness ==
    /\ last.op = "add_where" /\ last.err = "" /\ delims = <<>>
    /\ \E i \in Refs :
          add_where(Heap, [x \in {"test"} |-> "0"], PyWhere(i), PyNone).kw
             = [x \in {"test", WHERE_KWARG} |-> IF x = "test" THEN "0" ELSE "A = 1"]

----------------------------------------------------------------------------
(* A caller that edits: an Editor used directly and in a with block, and   *)
(* an InsertCursor                                                         *)

\* a call on the caller's Editor ended and left the object e
Edited(op, raised, e, inWith, how) ==
    /\ Len(e.calls) <= MaxCalls
    /\ editor' = [editor EXCEPT !.obj = e, !.inWith = inWith,
                                !.opened = IF ~editor.obj.isEditing /\ e.isEditing
                                           THEN how ELSE @]
    /\ last' = [op |-> op, err |-> "", raised |-> raised]
    /\ UNCHANGED <<insts, lists, delims, cursor, workspace>>

\* editor = Editor(path, with_undo)
NewEditor(versioned, with_undo) ==
    /\ ~editor.obj.made
    /\ editor' = [obj |-> Editor__init__(versioned, with_undo), with_undo |-> with_undo,
                  inWith |-> FALSE, opened |-> ""]
    /\ last' = [op |-> "Editor", err |-> "", raised |-> FALSE]
    /\ UNCHANGED <<insts, lists, delims, cursor, workspace>>

\* editor.start(*args): start() or start(with_undo)
CallStart(args) ==
    /\ editor.obj.made
    /\ Edited("start", FALSE,
              Editor_start(editor.obj, IF args = <<>> THEN FALSE ELSE args[1]),
              editor.inWith, IF args = <<>> THEN "start()" ELSE "start(with_undo)")

\* editor.stop(save)
CallStop(save) ==
    /\ editor.obj.made
    /\ Edited("stop", FALSE, Editor_stop(editor.obj, save), editor.inWith, "")

\* with editor: the block is entered
Enter ==
    /\ editor.obj.made
    /\ ~editor.inWith
    /\ Edited("__enter__", FALSE, Editor__enter__(editor.obj), TRUE, "with")

\* with editor: the block is left, by an exception if raised
Exit(raised) ==
    /\ editor.inWith
    /\ Edited("__exit__", raised, Editor__exit__(editor.obj, raised), FALSE, "")

\* a call on the caller's InsertCursor ended and left the object c
Inserted(op, err, c) ==
    /\ cursor' = c
    /\ last' = [op |-> op, err |-> err, raised |-> FALSE]
    /\ UNCHANGED <<insts, lists, delims, editor, workspace>>

\* cursor = InsertCursor(datatable, field_names, auto_edit=auto_edit)
NewCursor(fails, auto_edit, versioned) ==
    /\ ~cursor.made
    /\ LET r == InsertCursor__init__(fails, auto_edit, versioned)
       IN  Inserted("InsertCursor", r.err, IF r.err = "" THEN r.c ELSE cursor)

\* cursor.newRow()
CallNewRow ==
    /\ cursor.made
    /\ Inserted("newRow", newRow(cursor), cursor)

\* with cursor: the block is left: InsertCursor.__exit__
CursorExit(raised) ==
    /\ cursor.made
    /\ Inserted("InsertCursor.__exit__", "", _close(cursor, ~raised))

\* the cursor is deleted: InsertCursor.__del__; its editor stays in view
CursorDel ==
    /\ cursor.made
    /\ Inserted("InsertCursor.__del__", "", [_close(cursor, TRUE) EXCEPT !.made = FALSE])

NextEdit ==
    \/ \E versioned \in BOOLEAN, with_undo \in BOOLEAN : NewEditor(versioned, with_undo)
    \/ \E args \in {<<>>, <<TRUE>>, <<FALSE>>} : CallStart(args)
    \/ \E save \in BOOLEAN : CallStop(save)
    \/ Enter
    \/ \E raised \in BOOLEAN : Exit(raised)
    \/ \E fails \in {"", "edit session", "other"}, auto_edit \in BOOLEAN, versioned \in BOOLEAN :
          NewCursor(fails, auto_edit, versioned)
    \/ CallNewRow
    \/ \E raised \in BOOLEAN : CursorExit(raised)
    \/ CursorDel

SpecEdit == Init /\ [][NextEdit]_vars

----------------------------------------------------------------------------
(* A caller that makes and finds paths in a workspace *)

\* the geodatabase roots and the element names of the caller's paths
GdbRoots == {"C:/temp/test.gdb", "C:\\temp\\db.sde", "in_memory", "Test.MDB"}
ElementNames == {"ele", "ele_kabel"}
ElementPaths == UNION {[1..n -> ElementNames] : n \in 0..2}

\* a call on the caller's Workspace ended with outcome r
Worked(op, arg, r, searched) ==
    /\ \A k \in DOMAIN r.w._fds_lookup : Len(r.w._fds_lookup[k]) <= MaxMapped
    /\ workspace' = [obj |-> r.w, searched |-> searched]
    /\ last' = [op |-> op, err |-> r.err, msg |-> r.msg, out |-> r.out, arg |-> arg]
    /\ UNCHANGED <<insts, lists, delims, editor, cursor>>

\* Workspace(path, qualifier)
NewWorkspace(path, qualifier) ==
    Worked("Workspace", <<path, qualifier>>,
           [w |-> Workspace__init__(path, qualifier), err |-> "", msg |-> "", out |-> ""],
           FALSE)

\* Workspace.make_path(*parts)
CallMakePath(parts) ==
    /\ workspace.obj.made
    /\ Worked("make_path", parts, make_path(workspace.obj, parts), workspace.searched)

\* Workspace.find_path(table, refresh)
CallFindPath(table, refresh) ==
    /\ workspace.obj.made
    /\ Worked("find_path", <<table, refresh>>, find_path(workspace.obj, table, refresh), TRUE)

NextPaths ==
    \/ \E a \in {<<"C:/temp/test.gdb", "">>, <<"C:\\temp\\db.sde", "user">>} :
          NewWorkspace(a[1], a[2])
    \/ \E parts \in {<<"ele", "ele_kabel">>, <<"ele", "ele_neu">>, <<"tab">>,
                     <<"a", "b", "c">>} : CallMakePath(parts)
    \/ \E table \in {"ele_kabel", "was_rohr", "ele_neu"}, refresh \in BOOLEAN :
          CallFindPath(table, refresh)

SpecPaths == Init /\ [][NextPaths]_vars

----------------------------------------------------------------------------
(* A caller that asks for the root and the parent of one path *)

\* the caller's path: root and names joined by sep
PathOf(arg) == Join(arg.sep, <<arg.root>> \o arg.names)

\* the caller has drawn its path and its outside_gdb
InitRoots ==
    /\ insts = <<>>
    /\ lists = <<>>
    /\ delims = <<>>
    /\ editor = [obj |-> NoEditor, with_undo |-> FALSE, inWith |-> FALSE, opened |-> ""]
    /\ cursor = NoCursor
    /\ workspace = [obj |-> NoWorkspace, searched |-> FALSE]
    /\ \E root \in GdbRoots, names \in ElementPaths, sep \in {"/", "\\"},
          outside_gdb \in BOOLEAN :
          last = [op |-> "", err |-> "", out |-> "",
                  arg |-> [root |-> root, names |-> names, sep |-> sep,
                           outside_gdb |-> outside_gdb]]

\* Workspace.get_root(path)
CallGetRoot ==
    /\ last.op = ""
    /\ last' = [last EXCEPT !.op = "get_root", !.out = get_root(PathOf(last.arg))]
    /\ UNCHANGED <<insts, lists, delims, editor, cursor, workspace>>

\* Workspace.get_parent(path, outside_gdb)
CallGetParent ==
    /\ last.op = ""
    /\ last' = [last EXCEPT !.op = "get_parent",
                            !.out = get_parent(PathOf(last.arg), last.arg.outside_gdb)]
    /\ UNCHANGED <<insts, lists, delims, editor, cursor, workspace>>

NextRoots == CallGetRoot \/ CallGetParent

SpecRoots == InitRoots /\ [][NextRoots]_vars

----------------------------------------------------------------------------
(* The claims about the Editor *)

\* C21: start() does nothing when the editor is editing and stop() does
\* nothing when it is not; the calls made on the edit session follow the cycle
\* startEditing, startOperation, one of stopOperation / undoOperation /
\* abortOperation, stopEditing, and the editor is editing exactly between the
\* second and the third step of a cycle
C21_StartStopCycle ==
    LET e == editor.obj
        Step(k) == CASE k % 4 = 1 -> {"startEditing"}
                     [] k % 4 = 2 -> {"startOperation"}
                     [] k % 4 = 3 -> {"stopOperation", "undoOperation", "abortOperation"}
                     [] OTHER -> {"stopEditing"}
    IN  /\ \A k \in 1..Len(e.calls) : e.calls[k].f \in Step(k)
        /\ e.isEditing <=> Len(e.calls) % 4 = 2
        /\ e.isEditing => \A with_undo \in BOOLEAN : Editor_start(e, with_undo) = e
        /\ ~e.isEditing => \A save \in BOOLEAN : Editor_stop(e, save) = e

\* start() was called in the with block of a session the with statement opened,
\* after an earlier session was closed
C21_Witness ==
    /\ last.op = "start"
    /\ editor.inWith
    /\ editor.opened = "with"
    /\ editor.obj.isEditing
    /\ Len(editor.obj.calls) = 6

\* C22: leaving the with block of an Editor through an exception closes the
\* open session without saving (abortOperation or undoOperation, then
\* stopEditing(False)); leaving it normally closes it saved (stopOperation,
\* then stopEditing(True)); in both cases the editor is not editing afterwards
C22_ExitClosesSession ==
    [][last'.op = "__exit__" /\ editor.inWith =>
          LET e == editor.obj
              e2 == editor'.obj
              n == Len(e.calls)
          IN  /\ ~e2.isEditing
              /\ e.isEditing =>
                    /\ Len(e2.calls) = n + 2
                    /\ e2.calls[n + 1].f \in
                          (IF last'.raised THEN {"abortOperation", "undoOperation"}
                           ELSE {"stopOperation"})
                    /\ e2.calls[n + 2] = [f |-> "stopEditing", args |-> <<~last'.raised>>]
    ]_vars

\* a with block was left through an exception and the session was closed unsaved
C22_Witness ==
    /\ last.op = "__exit__"
    /\ last.raised
    /\ editor.opened = "with"
    /\ Len(editor.obj.calls) = 4
    /\ editor.obj.calls[3].f = "abortOperation"
    /\ editor.obj.calls[4] = [f |-> "stopEditing", args |-> <<FALSE>>]

\* C23: stop(save=False) on an open session calls undoOperation when the
\* session was started with an undo stack or the workspace is versioned, and
\* abortOperation only when the undo stack was disabled; then stopEditing(False)
C23_StopRollsBack ==
    LET e == editor.obj
        n == Len(e.calls)
        after == Editor_stop(e, FALSE)
        with_stack == e.calls[n - 1].args[1]
    IN  e.isEditing =>
            /\ after.calls[n + 1].f =
                  (IF with_stack \/ e._versioned THEN "undoOperation" ELSE "abortOperation")
            /\ after.calls[n + 2] = [f |-> "stopEditing", args |-> <<FALSE>>]
            /\ ~after.isEditing

\* C24: a session opened by the with statement or by start() without arguments
\* keeps an undo stack exactly when the workspace is versioned or with_undo=True
\* was given to the constructor
C24_UndoStackAsConstructed ==
    LET e == editor.obj
    IN  e.isEditing /\ editor.opened \in {"with", "start()"} =>
            e.calls[Len(e.calls) - 1] =
                [f |-> "startEditing",
                 args |-> <<e._versioned \/ editor.with_undo, e._versioned>>]

----------------------------------------------------------------------------
(* The claims about the InsertCursor *)

\* C28: an InsertCursor is in the same initialised state whether or not its
\* construction had to start an edit session: its field map is set and
\* newRow() succeeds, and closing the cursor stops a session it started
C28_CursorInitialised ==
    cursor.made =>
        /\ cursor._field_map
        /\ newRow(cursor) = ""
        /\ \A save \in BOOLEAN : ~_close(cursor, save)._editor.isEditing

----------------------------------------------------------------------------
(* The claims about paths and the Workspace *)

\* C27: for a path made of a geodatabase root followed by zero, one or two
\* element names, get_root returns the root and is idempotent; get_parent
\* returns the root itself for the root path (its containing directory only
\* when outside_gdb is true) and the containing workspace otherwise
C27_RootAndParent ==
    LET a == last.arg
        root == normpath(a.root)
        n == Len(a.names)
        container == normpath(Join("\\", <<a.root>> \o SubSeq(a.names, 1, n - 1)))
    IN  /\ last.op = "get_root" =>
              /\ last.out = root
              /\ get_root(last.out) = last.out
        /\ last.op = "get_parent" =>
              IF n = 0
              THEN last.out = root \/ (a.outside_gdb /\ last.out = normpath(dirname(a.root)))
              ELSE last.out = container

\* C25: the first find_path call on a workspace builds the feature dataset
\* lookup from the workspace contents, whatever make_path calls came before it:
\* a feature class of a feature dataset that no make_path call named is
\* resolved to its path in that dataset
C25_FirstFindBuildsLookup ==
    LET w == workspace.obj
        found == Contents(w._is_remote)
    IN  w.made /\ ~workspace.searched =>
            \A k \in 1..Len(found) :
                LET fc == unqualify(found[k][2])
                    r == find_path(w, fc, FALSE)
                IN  fc \notin DOMAIN w._fds_lookup =>
                        /\ r.err = ""
                        /\ r.out = normpath(Join("\\", <<w._path>> \o found[k]))

\* C26: after make_path(dataset, feature_class), called once or repeatedly,
\* before or after the lookup was built, find_path(feature_class) does not
\* raise the 'could belong to' error when the feature class is mapped to one
\* distinct dataset, and finds the feature class where it exists
C26_NoAmbiguityForOneDataset ==
    LET w == workspace.obj
        found == Contents(w._is_remote)
    IN  w.made =>
            \A fc \in DOMAIN w._fds_lookup :
                LET fds == w._fds_lookup[fc]
                    r == find_path(w, fc, FALSE)
                IN  (\A k \in 1..Len(fds) : fds[k] = fds[1]) =>
                        /\ r.msg # "could belong to"
                        /\ \A k \in 1..Len(found) :
                              unqualify(found[k][2]) = fc /\ found[k][1] = fds[1] =>
                                  r.out = normpath(Join("\\", <<w._path>> \o found[k]))

----------------------------------------------------------------------------
(* The claims about the token lists of Where instances *)

\* C29: in every Where instance reachable by the constructor, the fluent
\* methods and combine, and in what combine and a following And or Or make of
\* it, the token list is not empty, the parentheses are balanced (no prefix
\* closes more than it opened, and none stays open), and a conjunction token
\* is not the first token, not the last token and not next to another one
C29_TokensWellFormed ==
    LET IsConj(t) == ~t.is_field /\ t.part \in ConjunctionTexts
        RECURSIVE Depth(_, _)
        Depth(parts, k) ==
            IF k = 0 THEN 0
            ELSE Depth(parts, k - 1)
                    + (IF ~parts[k].is_field /\ parts[k].part = "(" THEN 1 ELSE 0)
                    - (IF ~parts[k].is_field /\ parts[k].part = ")" THEN 1 ELSE 0)
        WellFormed(parts) ==
            /\ Len(parts) >= 1
            /\ \A k \in 1..Len(parts) : Depth(parts, k) >= 0
            /\ Depth(parts, Len(parts)) = 0
            /\ ~IsConj(parts[1])
            /\ ~IsConj(parts[Len(parts)])
            /\ \A k \in 1..(Len(parts) - 1) : ~(IsConj(parts[k]) /\ IsConj(parts[k + 1]))
    IN  \A i \in Refs :
            /\ WellFormed(Parts(Heap, i))
            /\ is_ready(Heap, i) =>
                  LET r1 == combine(Heap, PyWhere(i))
                  IN  /\ r1.err = ""
                      /\ WellFormed(Parts(r1.h, NewOf(r1)))
                      /\ \A op \in {"And", "Or"}, x \in {PyStr("B")} \cup WhereRefs :
                            LET r2 == _return_new(r1.h, NewOf(r1), Call(op, x, <<>>, PyNone))
                                r3 == combine(r2.h, PyWhere(NewOf(r2)))
                            IN  r2.err = "" =>
                                  /\ WellFormed(Parts(r2.h, NewOf(r2)))
                                  /\ r3.err = "" => WellFormed(Parts(r3.h, NewOf(r3)))

\* And or Or has joined two clauses in one instance, and another instance is
\* complete, so that combine wraps it and And joins the wrapped clause to it
C29_Witness ==
    \E i, j \in Refs :
        /\ is_ready(Heap, i)
        /\ LET r1 == combine(Heap, PyWhere(i))
               r2 == _return_new(r1.h, NewOf(r1), Call("And", PyWhere(i), <<>>, PyNone))
           IN  r1.err = "" /\ r2.err = "" /\ Len(Parts(r2.h, NewOf(r2))) > MaxParts
        /\ Len(Parts(Heap, j)) = MaxParts
        /\ \E k \in 2..(MaxParts - 1) :
              /\ ~Parts(Heap, j)[k].is_field
              /\ Parts(Heap, j)[k].part \in ConjunctionTexts
              /\ Parts(Heap, j)[k + 1].is_field

\* C30: Where instances never share their token list: delimit_fields on one
\* instance changes the tokens of that instance only, never those of another
\* instance, be it the one it was copied or combined from or one derived from
\* it before or afterwards by the constructor, a fluent method or combine
C30_DelimitChangesOneInstance ==
    \A i \in Refs :
        /\ \A j \in Refs \ {i} : insts[i]._parts # insts[j]._parts
        /\ \A ds \in Datasources :
              LET r == delimit_fields(Heap, i, ds)
                  copy == __init__(r.h, PyWhere(i))
                  next == _return_new(r.h, i, Call("And", PyStr("B"), <<>>, PyNone))
                  wrap == combine(r.h, PyWhere(i))
              IN  /\ Len(r.h.insts) = Len(insts)
                  /\ \A j \in Refs \ {i} :
                        /\ Parts(r.h, j) = Parts(Heap, j)
                        /\ IsDirty(r.h, j) = IsDirty(Heap, j)
                  /\ copy.err = "" /\ OwnList(copy.h, NewOf(copy))
                  /\ next.err = "" => OwnList(next.h, NewOf(next))
                  /\ wrap.err = "" => OwnList(wrap.h, NewOf(wrap))

\* delimit_fields has rewritten the field of one instance, and an instance
\* derived from the same tokens still has the field as it was
C30_Witness ==
    /\ last.op = "delimit_fields" /\ last.err = ""
    /\ \E i, j \in Refs :
          /\ Parts(Heap, i)[1].part = "[A]"
          /\ Parts(Heap, j)[1].part = "A"
          /\ Len(Parts(Heap, j)) > 1
          /\ SubSeq(Parts(Heap, j), 2, Len(Parts(Heap, i))) =
                SubSeq(Parts(Heap, i), 2, Len(Parts(Heap, i)))

====
